---- MODULE Spec2Model ----
(***************************************************************************)
(* Financial analytics core of the budgeting app                           *)
(* (src/utils/financialForecasting.ts): calculateMonthlyStats,             *)
(* generateForecast, generateMonthlyForecast, analyzeSpendingPatterns,     *)
(* assessFinancialRisk and generateAIRecommendations, each exercised by a  *)
(* specification of its own (SpecStats, SpecForecast, SpecPatterns,        *)
(* SpecRisk, SpecRecommendations) whose initial states draw the arguments. *)
(*                                                                         *)
(* Time is a count of ticks of UTC; a calendar month is TicksPerMonth       *)
(* consecutive ticks of the runtime's local time, so startOfMonth,         *)
(* endOfMonth, addMonths and subMonths of date-fns are arithmetic on       *)
(* ticks, and tick 0 is the first instant of November 2024 (UTC) so that   *)
(* the time line crosses a year.  A transaction's date string is written   *)
(* in UTC (toISOString) and new Date() reads it back as that instant.      *)
(*                                                                         *)
(* Money amounts are integers, on which the IEEE doubles of the program    *)
(* compute exactly.  A quotient is kept as numerator and denominator and   *)
(* is compared and rounded the way the JavaScript operators do it,         *)
(* division by zero included (Infinity, -Infinity, NaN).  For the integer  *)
(* amounts drawn here the double of the program compares with a threshold  *)
(* and rounds as the exact quotient does.                                  *)
(***************************************************************************)
EXTENDS Integers, Sequences, FiniteSets, TLC

\* ------------------------------------------------------------------ bounds
MaxTx == 2            \* longest transaction list
MaxTime == 5          \* last instant of the time line
TicksPerMonth == 2    \* instants per calendar month
MaxHist == 3          \* longest monthly history handed to the forecasts
MaxVal == 1           \* largest monthly income or expenses in a drawn history
MaxForecastMonths == 2 \* largest `months` argument of generateMonthlyForecast
MaxRiskVal == 4       \* largest income or expenses handed to assessFinancialRisk
MaxSavings == 3       \* largest savings figure handed to assessFinancialRisk
MaxPatterns == 3      \* longest SpendingPattern list handed to assessFinancialRisk
MaxRecVal == 5        \* largest income or expenses handed to generateAIRecommendations
MaxTrendPatterns == 2 \* longest SpendingPattern list handed to generateAIRecommendations

\* ------------------------------------------------------- program constants
MonthsPerYear == 12
EpochYear == 2024
EpochMonth == 10      \* tick 0 lies in November (0-based month 10) of EpochYear

Time == 0..MaxTime

Undefined == "undefined"   \* an absent string-valued property
\* an optional number: << >> when the property is absent, << v >> when it is v
Absent == << >>
Num(v) == << v >>
CategoryIds == {"c1", "c2"}
TxTypes == {"income", "expense"}
Amounts == {1, 2}

SeqsUpTo(S, n) == UNION {[1..k -> S] : k \in 0..n}

\* The provider fetches the transactions ordered by date, latest first, and its
\* local edits and deletions keep that order.
SortedByDateDesc(txs) == \A i \in 1..(Len(txs) - 1) : txs[i].date >= txs[i + 1].date

\* The Transaction type: the fields the analytics read.  The transactions
\* drawn are incomes of 2 and expenses of 1.
Transaction ==
  {t \in [type : TxTypes, amount : Amounts, category_id : CategoryIds, date : Time] :
     t.amount = (IF t.type = "income" THEN 2 ELSE 1)}

VARIABLES
  call,             \* which part of the analytics this behaviour exercises
  pc,               \* position inside the call, "done" once it has returned
  clock,            \* the wall clock, what new Date() returns
  timeZone,         \* the runtime's zone: local time minus UTC, in ticks
  transactions,     \* argument: Transaction[]
  startDate,        \* argument of calculateMonthlyStats
  endDate,          \* argument of calculateMonthlyStats
  result,           \* what calculateMonthlyStats returned or threw
  monthlyStats,     \* argument: MonthlyStats[] of the forecasts
  months,           \* argument of generateMonthlyForecast
  forecast,         \* what generateForecast returned
  monthlyForecast,  \* what generateMonthlyForecast returned
  currentMonthStats, \* argument of assessFinancialRisk: one month's figures
  spendingPatterns, \* argument of assessFinancialRisk: SpendingPattern[]
  riskLevel,        \* local of assessFinancialRisk
  factors,          \* local of assessFinancialRisk
  mitigationSteps,  \* local of assessFinancialRisk
  riskAssessment,   \* what assessFinancialRisk returned
  recommendations,  \* what generateAIRecommendations returned
  pendingCategories, \* local of analyzeSpendingPatterns: labels still to visit
  patterns,         \* local of analyzeSpendingPatterns, returned at the end
  recentTransactions, \* local of the forEach callback: positions in categoryTransactions
  olderTransactions, \* local of the forEach callback: positions in categoryTransactions
  startedAt,        \* the clock when analyzeSpendingPatterns was entered
  insights,         \* what generateFinancialInsights returned
  table,            \* DataProvider: the rows of the transactions table on the server
  rendered,         \* DataProvider: the transactions state as of the latest render
  balance,          \* DataProvider: the balance state
  calls,            \* DataProvider: the asynchronous calls in flight
  issued            \* DataProvider: how many calls were started so far

statsVars == <<transactions, startDate, endDate, result>>
forecastVars == <<monthlyStats, months, forecast, monthlyForecast>>
riskVars == <<currentMonthStats, spendingPatterns, riskLevel, factors,
              mitigationSteps, riskAssessment>>
patternVars == <<pendingCategories, patterns, recentTransactions, olderTransactions,
                 startedAt>>

providerVars == <<table, rendered, balance, calls, issued>>

vars == <<call, pc, clock, timeZone, recommendations, insights, statsVars, forecastVars,
          riskVars, patternVars, providerVars>>

NoResult == [status |-> "none"]
Returned(v) == [status |-> "returned", value |-> v]
Threw(e) == [status |-> "threw", error |-> e]

\* --------------------------------------------------------------- date-fns
\* An instant is a tick of UTC; date-fns works on the local reading of an
\* instant, which is the instant plus the zone's offset.
LocalReading(t) == t + timeZone

\* zone offsets of the runtime: west of UTC, UTC, east of UTC
TimeZones == {-1, 0, 1}

startOfMonth(t) == (LocalReading(t) \div TicksPerMonth) * TicksPerMonth - timeZone
endOfMonth(t) == startOfMonth(t) + TicksPerMonth - 1
MonthIndex(t) == LocalReading(t) \div TicksPerMonth

\* format(month, 'yyyy-MM')
formatYearMonth(t) ==
  LET m == EpochMonth + MonthIndex(t)
  IN <<EpochYear + (m \div MonthsPerYear), (m % MonthsPerYear) + 1>>

RECURSIVE MonthsFromStrict(_, _)
\* eachMonthOfInterval that stops before a month starting exactly at endTime
MonthsFromStrict(current, endTime) ==
  IF current < endTime
    THEN <<current>> \o MonthsFromStrict(current + TicksPerMonth, endTime)
    ELSE <<>>

RECURSIVE MonthsFrom(_, _)
\* the while loop of eachMonthOfInterval: month starts from current up to endTime
MonthsFrom(current, endTime) ==
  IF current <= endTime
    THEN <<current>> \o MonthsFrom(current + TicksPerMonth, endTime)
    ELSE <<>>

Reverse(s) == [i \in 1..Len(s) |-> s[Len(s) + 1 - i]]

\* eachMonthOfInterval({start, end}).  date-fns 2 throws RangeError on a
\* reversed interval; date-fns 3 and later return the months in reverse order.
eachMonthOfInterval(start, end, version) ==
  IF start <= end
    THEN Returned(MonthsFrom(startOfMonth(start), end))
    ELSE IF version = "v2"
      THEN Threw("RangeError")
      ELSE Returned(Reverse(MonthsFrom(startOfMonth(end), start)))

DateFnsVersions == {"v2", "v3"}

\* ---------------------------------------------------- calculateMonthlyStats
EmptyStats(month) ==
  [month |-> formatYearMonth(month), income |-> 0, expenses |-> 0, balance |-> 0,
   categories |-> <<>>]

\* categories[t.category_id], created with amount 0 when absent
CategoryEntry(categories, id) ==
  IF id \in DOMAIN categories THEN categories[id] ELSE [amount |-> 0, trend |-> 0]

\* forEach body that forgets to subtract an expense from the balance
AddTransactionNoDebit(stats, t) ==
  LET entry == CategoryEntry(stats.categories, t.category_id)
      signed == IF t.type = "income" THEN t.amount ELSE 0 - t.amount
      cats == [id \in (DOMAIN stats.categories) \cup {t.category_id} |->
                 IF id = t.category_id
                   THEN [entry EXCEPT !.amount = entry.amount + signed]
                   ELSE stats.categories[id]]
  IN IF t.type = "income"
       THEN [stats EXCEPT !.income = stats.income + t.amount,
                          !.balance = stats.balance + t.amount,
                          !.categories = cats]
       ELSE [stats EXCEPT !.expenses = stats.expenses + t.amount,
                          !.categories = cats]

\* body of monthTransactions.forEach
AddTransaction(stats, t) ==
  LET entry == CategoryEntry(stats.categories, t.category_id)
      signed == IF t.type = "income" THEN t.amount ELSE 0 - t.amount
      cats == [id \in (DOMAIN stats.categories) \cup {t.category_id} |->
                 IF id = t.category_id
                   THEN [entry EXCEPT !.amount = entry.amount + signed]
                   ELSE stats.categories[id]]
  IN IF t.type = "income"
       THEN [stats EXCEPT !.income = stats.income + t.amount,
                          !.balance = stats.balance + t.amount,
                          !.categories = cats]
       ELSE [stats EXCEPT !.expenses = stats.expenses + t.amount,
                          !.balance = stats.balance - t.amount,
                          !.categories = cats]

RECURSIVE FoldTransactions(_, _)
FoldTransactions(stats, txs) ==
  IF txs = <<>> THEN stats
  ELSE FoldTransactions(AddTransaction(stats, Head(txs)), Tail(txs))

\* month filter that excludes the last instant of the month
InMonthExclusiveEnd(t, month) ==
  t.date >= startOfMonth(month) /\ t.date < endOfMonth(month)

\* the filter of one month: date >= monthStart && date <= monthEnd
InMonth(t, month) == t.date >= startOfMonth(month) /\ t.date <= endOfMonth(month)

MonthStats(txs, month) ==
  LET monthTransactions == SelectSeq(txs, LAMBDA t : InMonth(t, month))
  IN FoldTransactions(EmptyStats(month), monthTransactions)

calculateMonthlyStats(txs, start, end, version) ==
  LET monthList == eachMonthOfInterval(start, end, version)
  IN IF monthList.status = "threw" THEN monthList
     ELSE Returned([i \in 1..Len(monthList.value) |->
                      MonthStats(txs, monthList.value[i])])

\* ----------------------------------------------------------------- actions
\* the variables of the functions a behaviour does not exercise
IdleStats == startDate = 0 /\ endDate = 0 /\ result = NoResult
IdleForecast ==
  monthlyStats = <<>> /\ months = 0 /\ forecast = NoResult /\ monthlyForecast = NoResult
IdleRisk ==
  /\ currentMonthStats = [income |-> 0, expenses |-> 0, savings |-> Absent]
  /\ spendingPatterns = <<>>
  /\ riskLevel = "low"
  /\ factors = <<>>
  /\ mitigationSteps = <<>>
  /\ riskAssessment = NoResult
IdleRecommendations == recommendations = NoResult
IdleInsights == insights = NoResult

\* useState({ total: 0, income: 0, expenses: 0 })
InitialBalance == [total |-> 0, income |-> 0, expenses |-> 0]

IdleProvider ==
  /\ table = <<>> /\ rendered = <<>> /\ balance = InitialBalance
  /\ calls = <<>> /\ issued = 0

IdlePatterns ==
  /\ pendingCategories = <<>> /\ patterns = <<>> /\ startedAt = 0
  /\ recentTransactions = {} /\ olderTransactions = {}

InitStats ==
  /\ call = "calculateMonthlyStats"
  /\ IdleRecommendations /\ IdleInsights /\ IdleProvider
  /\ pc = "ready"
  /\ clock = 0
  /\ transactions \in SeqsUpTo(Transaction, MaxTx)
  /\ SortedByDateDesc(transactions)
  /\ startDate \in Time
  /\ endDate \in Time
  /\ timeZone \in TimeZones
  /\ result = NoResult
  /\ IdleForecast /\ IdleRisk /\ IdlePatterns

CallCalculateMonthlyStats ==
  /\ call = "calculateMonthlyStats"
  /\ pc = "ready"
  /\ \E version \in DateFnsVersions :
       result' = calculateMonthlyStats(transactions, startDate, endDate, version)
  /\ pc' = "done"
  /\ UNCHANGED <<call, timeZone, recommendations, insights, providerVars, clock, transactions, startDate, endDate,
                 forecastVars, riskVars, patternVars>>

NextStats == CallCalculateMonthlyStats

SpecStats == InitStats /\ [][NextStats]_vars

\* ------------------------------------------------------ JavaScript numbers
\* Math.round(p / q) for q > 0: the nearest integer, halves towards +Infinity
RoundTruncDiv(p, q) == p \div q

RoundDiv(p, q) == (2 * p + q) \div (2 * q)

\* num / den > p / q as JavaScript evaluates it, for p >= 0 and q > 0:
\* x / 0 is Infinity for x > 0, NaN for x = 0 and -Infinity for x < 0, and a
\* comparison with NaN is false
JsRatioGT(num, den, p, q) ==
  IF den > 0 THEN num * q > p * den
  ELSE IF den < 0 THEN num * q < p * den
  ELSE num > 0

\* ---------------------------------------------------------- generateForecast
\* the fields of MonthlyStats the forecasts read
HistoryEntry == [income : 0..MaxVal, expenses : 0..MaxVal]

\* histories with larger figures: the documented example, one with an expense
\* ratio between 0.8 and 1, one whose predicted income is 0 with expenses left
ExampleHistories ==
  { << [income |-> 1000, expenses |-> 800], [income |-> 1200, expenses |-> 760] >>,
    << [income |-> 100, expenses |-> 85], [income |-> 100, expenses |-> 85] >>,
    << [income |-> 100, expenses |-> 80], [income |-> 100, expenses |-> 80] >>,
    << [income |-> 10, expenses |-> 9], [income |-> 10, expenses |-> 9] >>,
    << [income |-> 7, expenses |-> 2], [income |-> 4, expenses |-> 3],
       [income |-> 2, expenses |-> 7] >>,
    << [income |-> 10, expenses |-> 8], [income |-> 5, expenses |-> 7],
       [income |-> 0, expenses |-> 6] >>,
    << [income |-> 9, expenses |-> 9], [income |-> 3, expenses |-> 4] >> }

Histories == SeqsUpTo(HistoryEntry, MaxHist) \cup ExampleHistories

RECURSIVE incomeChangeSum(_, _)
\* the loop for (i = 1; i < length; i++): sum of income[i] - income[i-1],
\* over the 1-based positions i..Len
incomeChangeSum(stats, i) ==
  IF i > Len(stats) THEN 0
  ELSE (stats[i].income - stats[i - 1].income) + incomeChangeSum(stats, i + 1)

RECURSIVE expensesChangeSum(_, _)
expensesChangeSum(stats, i) ==
  IF i > Len(stats) THEN 0
  ELSE (stats[i].expenses - stats[i - 1].expenses) + expensesChangeSum(stats, i + 1)

\* riskLevel with the ratio threshold at 0.9
RiskLevelThreshold09(predictedIncome, predictedExpenses, predictedBalance) ==
  IF predictedBalance < 0 THEN "high"
  ELSE IF JsRatioGT(predictedExpenses, predictedIncome, 9, 10) THEN "medium"
  ELSE "low"

\* riskLevel that tests the expense ratio before the negative balance
RiskLevelRatioFirst(predictedIncome, predictedExpenses, predictedBalance) ==
  IF JsRatioGT(predictedExpenses, predictedIncome, 8, 10) THEN "medium"
  ELSE IF predictedBalance < 0 THEN "high"
  ELSE "low"

\* let riskLevel = 'low'; if (balance < 0) 'high'; else if (ratio > 0.8) 'medium'
RiskLevelOf(predictedIncome, predictedExpenses, predictedBalance) ==
  IF predictedBalance < 0 THEN "high"
  ELSE IF JsRatioGT(predictedExpenses, predictedIncome, 8, 10) THEN "medium"
  ELSE "low"

\* recommendations that test the two trends before the balance and the ratio
RecommendationsOfTrendsFirst(predictedIncome, predictedExpenses, predictedBalance, incomeSum, expensesSum) ==
  LET r1 == IF predictedBalance < 0
              THEN <<"Reduce non-essential expenses to avoid negative balance">>
              ELSE <<>>
      r2 == IF JsRatioGT(predictedExpenses, predictedIncome, 8, 10)
              THEN <<"Consider increasing income sources or reducing expenses">>
              ELSE <<>>
      r3 == IF expensesSum > 0
              THEN <<"Your expenses are trending upward, consider budgeting">>
              ELSE <<>>
      r4 == IF incomeSum < 0
              THEN <<"Your income is trending downward, explore additional income sources">>
              ELSE <<>>
      all == r3 \o r4 \o r1 \o r2
  IN IF Len(all) = 0 THEN <<"Continue your current financial habits">> ELSE all

\* the four independent pushes and the fallback
RecommendationsOf(predictedIncome, predictedExpenses, predictedBalance, incomeSum, expensesSum) ==
  LET r1 == IF predictedBalance < 0
              THEN <<"Reduce non-essential expenses to avoid negative balance">>
              ELSE <<>>
      r2 == IF JsRatioGT(predictedExpenses, predictedIncome, 8, 10)
              THEN <<"Consider increasing income sources or reducing expenses">>
              ELSE <<>>
      r3 == IF expensesSum > 0
              THEN <<"Your expenses are trending upward, consider budgeting">>
              ELSE <<>>
      r4 == IF incomeSum < 0
              THEN <<"Your income is trending downward, explore additional income sources">>
              ELSE <<>>
      all == r1 \o r2 \o r3 \o r4
  IN IF Len(all) = 0 THEN <<"Continue your current financial habits">> ELSE all

\* insufficient-data forecast that reports a low risk
InsufficientDataLowRisk ==
  [predictedIncome |-> 0, predictedExpenses |-> 0, predictedBalance |-> 0,
   riskLevel |-> "low",
   recommendations |-> <<"Not enough data for accurate forecast">>]

\* the early return for fewer than 2 months
InsufficientData ==
  [predictedIncome |-> 0, predictedExpenses |-> 0, predictedBalance |-> 0,
   riskLevel |-> "medium",
   recommendations |-> <<"Not enough data for accurate forecast">>]

generateForecast(stats) ==
  IF Len(stats) < 2 THEN InsufficientData
  ELSE
    LET n == Len(stats) - 1
        incomeSum == incomeChangeSum(stats, 2)
        expensesSum == expensesChangeSum(stats, 2)
        lastMonth == stats[Len(stats)]
        \* Math.round(lastMonth.income + incomeSum / n)
        predictedIncome == RoundDiv(lastMonth.income * n + incomeSum, n)
        predictedExpenses == RoundDiv(lastMonth.expenses * n + expensesSum, n)
        predictedBalance == predictedIncome - predictedExpenses
    IN [predictedIncome |-> predictedIncome,
        predictedExpenses |-> predictedExpenses,
        predictedBalance |-> predictedBalance,
        riskLevel |-> RiskLevelOf(predictedIncome, predictedExpenses, predictedBalance),
        recommendations |-> RecommendationsOf(predictedIncome, predictedExpenses,
                                              predictedBalance, incomeSum, expensesSum)]

\* --------------------------------------------------- generateMonthlyForecast
addMonths(t, k) == t + k * TicksPerMonth

\* format(date, 'MMM'): the month of the year, 1 = Jan .. 12 = Dec
formatMonthName(t) == ((EpochMonth + MonthIndex(t)) % MonthsPerYear) + 1

\* multi-period forecast that compounds each entry from the previous rounded one
generateMonthlyForecastCompounded(stats, numMonths, now) ==
  IF Len(stats) < 2
    THEN [i \in 1..numMonths |->
            [month |-> formatMonthName(addMonths(now, i)),
             income |-> 0, expenses |-> 0, balance |-> 0]]
    ELSE
      LET n == Len(stats) - 1
          incomeSum == incomeChangeSum(stats, 2)
          expensesSum == expensesChangeSum(stats, 2)
          lastMonth == stats[Len(stats)]
          inc[i \in 0..numMonths] ==
            IF i = 0 THEN lastMonth.income ELSE RoundDiv(inc[i - 1] * n + incomeSum, n)
          exp[i \in 0..numMonths] ==
            IF i = 0 THEN lastMonth.expenses ELSE RoundDiv(exp[i - 1] * n + expensesSum, n)
      IN [i \in 1..numMonths |->
            [month |-> formatMonthName(addMonths(now, i)),
             income |-> inc[i],
             expenses |-> exp[i],
             balance |-> inc[i] - exp[i]]]

\* Array(months).fill(null).map(...) below 2 months, the for loop otherwise
generateMonthlyForecast(stats, numMonths, now) ==
  IF Len(stats) < 2
    THEN [i \in 1..numMonths |->
            [month |-> formatMonthName(addMonths(now, i)),
             income |-> 0, expenses |-> 0, balance |-> 0]]
    ELSE
      LET n == Len(stats) - 1
          incomeSum == incomeChangeSum(stats, 2)
          expensesSum == expensesChangeSum(stats, 2)
          lastMonth == stats[Len(stats)]
      IN [i \in 1..numMonths |->
            LET predictedIncome == RoundDiv(lastMonth.income * n + incomeSum * i, n)
                predictedExpenses == RoundDiv(lastMonth.expenses * n + expensesSum * i, n)
            IN [month |-> formatMonthName(addMonths(now, i)),
                income |-> predictedIncome,
                expenses |-> predictedExpenses,
                balance |-> predictedIncome - predictedExpenses]]

\* The forecast screen hands the same history to both forecasts.
InitForecast ==
  /\ call = "forecast"
  /\ timeZone = 0
  /\ IdleRecommendations /\ IdleInsights /\ IdleProvider
  /\ pc = "ready"
  /\ clock \in Time
  /\ transactions = <<>>
  /\ monthlyStats \in Histories
  /\ months \in 0..MaxForecastMonths
  /\ forecast = NoResult
  /\ monthlyForecast = NoResult
  /\ IdleStats /\ IdleRisk /\ IdlePatterns

CallGenerateForecast ==
  /\ call = "forecast"
  /\ forecast = NoResult
  /\ forecast' = Returned(generateForecast(monthlyStats))
  /\ pc' = IF monthlyForecast = NoResult THEN "running" ELSE "done"
  /\ UNCHANGED <<call, timeZone, recommendations, insights, providerVars, clock, statsVars, monthlyStats, months, monthlyForecast,
                 riskVars, patternVars>>

CallGenerateMonthlyForecast ==
  /\ call = "forecast"
  /\ monthlyForecast = NoResult
  /\ monthlyForecast' = Returned(generateMonthlyForecast(monthlyStats, months, clock))
  /\ pc' = IF forecast = NoResult THEN "running" ELSE "done"
  /\ UNCHANGED <<call, timeZone, recommendations, insights, providerVars, clock, statsVars, monthlyStats, months, forecast,
                 riskVars, patternVars>>

NextForecast == CallGenerateForecast \/ CallGenerateMonthlyForecast

SpecForecast == InitForecast /\ [][NextForecast]_vars

\* ------------------------------------------ the forecasts in double precision
\* The numbers of the forecasts are IEEE 754 doubles.  The doubles that occur
\* for amounts between 1/16 and 8 units are multiples of 2^-57; such a number
\* is held as [neg, hi, lo], standing for +/- (hi * 2^30 + lo) * 2^-57, and
\* every operation rounds its exact result to 53 significant bits, a tie going
\* to the even neighbour.
MantissaBits == 53
LimbBits == 30
UnitBits == 27

Limb == 2 ^ LimbBits

DoubleZero == [neg |-> FALSE, hi |-> 0, lo |-> 0]

\* 1 and 2, and the doubles nearest to 0.08, 0.36 and 1.37
DoubleOne == [neg |-> FALSE, hi |-> 134217728, lo |-> 0]
DoubleTwo == [neg |-> FALSE, hi |-> 268435456, lo |-> 0]
DoubleOf008 == [neg |-> FALSE, hi |-> 10737418, lo |-> 257698038]
DoubleOf036 == [neg |-> FALSE, hi |-> 48318382, lo |-> 85899344]
DoubleOf137 == [neg |-> FALSE, hi |-> 183878287, lo |-> 386547072]

\* months of the histories: with and without cents
DoubleEntries ==
  { [income |-> DoubleOf008, expenses |-> DoubleOne],
    [income |-> DoubleZero, expenses |-> DoubleOf036],
    [income |-> DoubleOf137, expenses |-> DoubleTwo],
    [income |-> DoubleOf036, expenses |-> DoubleOf008],
    [income |-> DoubleOne, expenses |-> DoubleZero],
    [income |-> DoubleTwo, expenses |-> DoubleOne],
    [income |-> DoubleZero, expenses |-> DoubleTwo] }

\* histories of up to 3 months: the divisor length - 1 is then 1 or 2 and the
\* quotient is a multiple of 2^-57 again
DoubleHistories == UNION {[1..n -> DoubleEntries] : n \in 0..3}

RECURSIVE BitLength(_)
\* the number of bits of a natural number
BitLength(n) == IF n = 0 THEN 0 ELSE 1 + BitLength(n \div 2)

Magnitude(x) == [hi |-> x.hi, lo |-> x.lo]
MagnitudeLess(a, b) == a.hi < b.hi \/ (a.hi = b.hi /\ a.lo < b.lo)

MagnitudeAdd(a, b) ==
  LET lo == a.lo + b.lo
  IN [hi |-> a.hi + b.hi + (lo \div Limb), lo |-> lo % Limb]

\* a - b for a >= b
MagnitudeSub(a, b) ==
  LET lo == a.lo - b.lo
  IN IF lo < 0 THEN [hi |-> a.hi - b.hi - 1, lo |-> lo + Limb]
     ELSE [hi |-> a.hi - b.hi, lo |-> lo]

\* the double nearest to an exact magnitude: 53 significant bits are kept
RoundToDouble(a) ==
  LET bits == IF a.hi > 0 THEN LimbBits + BitLength(a.hi) ELSE BitLength(a.lo)
      excess == bits - MantissaBits
  IN IF excess <= 0 THEN a
     ELSE
       LET unit == 2 ^ excess
           rest == a.lo % unit
           down == [hi |-> a.hi, lo |-> a.lo - rest]
           up == MagnitudeAdd(down, [hi |-> 0, lo |-> unit])
       IN IF 2 * rest < unit THEN down
          ELSE IF 2 * rest > unit THEN up
          ELSE IF (a.lo \div unit) % 2 = 0 THEN down ELSE up

Signed(neg, magnitude) == [neg |-> neg, hi |-> magnitude.hi, lo |-> magnitude.lo]

\* x + y
DoubleAdd(x, y) ==
  IF x.neg = y.neg
    THEN Signed(x.neg, RoundToDouble(MagnitudeAdd(Magnitude(x), Magnitude(y))))
  ELSE IF MagnitudeLess(Magnitude(x), Magnitude(y))
    THEN Signed(y.neg, RoundToDouble(MagnitudeSub(Magnitude(y), Magnitude(x))))
  ELSE IF Magnitude(x) = Magnitude(y) THEN DoubleZero
  ELSE Signed(x.neg, RoundToDouble(MagnitudeSub(Magnitude(x), Magnitude(y))))

\* x - y
DoubleSub(x, y) == DoubleAdd(x, [y EXCEPT !.neg = ~y.neg])

\* x / n for n = 1 or 2 and x a multiple of 2^-56: the quotient is exact
DoubleDivide(x, n) ==
  IF n = 1 THEN x
  ELSE [neg |-> x.neg, hi |-> x.hi \div 2,
        lo |-> (x.hi % 2) * (Limb \div 2) + (x.lo \div 2)]

RECURSIVE MagnitudeTimes(_, _)
MagnitudeTimes(a, k) ==
  IF k = 0 THEN [hi |-> 0, lo |-> 0] ELSE MagnitudeAdd(a, MagnitudeTimes(a, k - 1))

\* x * k for a small natural number k
DoubleTimes(x, k) == Signed(x.neg, RoundToDouble(MagnitudeTimes(Magnitude(x), k)))

\* x < 0 and x > 0
DoubleNegative(x) == x.neg /\ Magnitude(x) # Magnitude(DoubleZero)
DoublePositive(x) == ~x.neg /\ Magnitude(x) # Magnitude(DoubleZero)

\* Math.round(x): the nearest integer, a tie going upward
MathRound(x) ==
  LET half == [hi |-> 2 ^ (UnitBits - 1), lo |-> 0]
      shifted == MagnitudeAdd(Magnitude(x), half)
      nearest == shifted.hi \div (2 ^ UnitBits)
      tie == shifted.hi % (2 ^ UnitBits) = 0 /\ shifted.lo = 0
  IN IF ~x.neg THEN nearest
     ELSE IF tie THEN 0 - (nearest - 1) ELSE 0 - nearest

\* change sum that keeps the last change only
ChangeSumLastOnly(values, i) ==
  DoubleSub(values[Len(values)], values[Len(values) - 1])

RECURSIVE ChangeSum(_, _)
\* the loop for (i = 1; i < length; i++) sum += values[i] - values[i-1], as far
\* as the 1-based position i: the changes are added from the first on
ChangeSum(values, i) ==
  IF i < 2 THEN DoubleZero
  ELSE DoubleAdd(ChangeSum(values, i - 1), DoubleSub(values[i], values[i - 1]))

DoubleIncomes(stats) == [i \in 1..Len(stats) |-> stats[i].income]
DoubleExpenses(stats) == [i \in 1..Len(stats) |-> stats[i].expenses]

\* -1, 0 or 1
SignOf(x) == IF DoubleNegative(x) THEN 0 - 1 ELSE IF DoublePositive(x) THEN 1 ELSE 0

\* generateForecast on doubles
generateForecastDouble(stats) ==
  IF Len(stats) < 2 THEN InsufficientData
  ELSE
    LET n == Len(stats) - 1
        incomeSum == ChangeSum(DoubleIncomes(stats), Len(stats))
        expensesSum == ChangeSum(DoubleExpenses(stats), Len(stats))
        avgIncomeChange == DoubleDivide(incomeSum, n)
        avgExpensesChange == DoubleDivide(expensesSum, n)
        lastMonth == stats[Len(stats)]
        predictedIncome == MathRound(DoubleAdd(lastMonth.income, avgIncomeChange))
        predictedExpenses == MathRound(DoubleAdd(lastMonth.expenses, avgExpensesChange))
        predictedBalance == predictedIncome - predictedExpenses
    IN [predictedIncome |-> predictedIncome,
        predictedExpenses |-> predictedExpenses,
        predictedBalance |-> predictedBalance,
        riskLevel |-> RiskLevelOf(predictedIncome, predictedExpenses, predictedBalance),
        recommendations |->
          RecommendationsOf(predictedIncome, predictedExpenses, predictedBalance,
                            SignOf(avgIncomeChange), SignOf(avgExpensesChange))]

\* generateMonthlyForecast on doubles
generateMonthlyForecastDouble(stats, numMonths, now) ==
  IF Len(stats) < 2
    THEN [i \in 1..numMonths |->
            [month |-> formatMonthName(addMonths(now, i)),
             income |-> 0, expenses |-> 0, balance |-> 0]]
    ELSE
      LET n == Len(stats) - 1
          avgIncomeChange ==
            DoubleDivide(ChangeSum(DoubleIncomes(stats), Len(stats)), n)
          avgExpensesChange ==
            DoubleDivide(ChangeSum(DoubleExpenses(stats), Len(stats)), n)
          lastMonth == stats[Len(stats)]
          predictedIncome(i) ==
            MathRound(DoubleAdd(lastMonth.income, DoubleTimes(avgIncomeChange, i)))
          predictedExpenses(i) ==
            MathRound(DoubleAdd(lastMonth.expenses, DoubleTimes(avgExpensesChange, i)))
      IN [i \in 1..numMonths |->
            [month |-> formatMonthName(addMonths(now, i)),
             income |-> predictedIncome(i),
             expenses |-> predictedExpenses(i),
             balance |-> predictedIncome(i) - predictedExpenses(i)]]

InitForecastDouble ==
  /\ call = "forecastDouble"
  /\ timeZone = 0
  /\ IdleRecommendations /\ IdleInsights /\ IdleProvider
  /\ pc = "ready"
  /\ clock = 0
  /\ transactions = <<>>
  /\ monthlyStats \in DoubleHistories
  /\ months \in 0..MaxForecastMonths
  /\ forecast = NoResult
  /\ monthlyForecast = NoResult
  /\ IdleStats /\ IdleRisk /\ IdlePatterns

CallGenerateForecastDouble ==
  /\ call = "forecastDouble"
  /\ forecast = NoResult
  /\ forecast' = Returned(generateForecastDouble(monthlyStats))
  /\ pc' = IF monthlyForecast = NoResult THEN "running" ELSE "done"
  /\ UNCHANGED <<call, timeZone, recommendations, insights, providerVars, clock,
                 statsVars, monthlyStats, months, monthlyForecast, riskVars,
                 patternVars>>

CallGenerateMonthlyForecastDouble ==
  /\ call = "forecastDouble"
  /\ monthlyForecast = NoResult
  /\ monthlyForecast' =
       Returned(generateMonthlyForecastDouble(monthlyStats, months, clock))
  /\ pc' = IF forecast = NoResult THEN "running" ELSE "done"
  /\ UNCHANGED <<call, timeZone, recommendations, insights, providerVars, clock,
                 statsVars, monthlyStats, months, forecast, riskVars, patternVars>>

NextForecastDouble == CallGenerateForecastDouble \/ CallGenerateMonthlyForecastDouble

SpecForecastDouble == InitForecastDouble /\ [][NextForecastDouble]_vars

\* -------------------------------------------------------- assessFinancialRisk
\* num / den < p / q as JavaScript evaluates it, for p >= 0 and q > 0
JsRatioLT(num, den, p, q) ==
  IF den > 0 THEN num * q < p * den
  ELSE IF den < 0 THEN num * q > p * den
  ELSE num < 0

\* One month's figures as assessFinancialRisk reads them.  MonthlyStats
\* declares no savings field, so monthlyStats.savings may be undefined.
RiskStats ==
  [income : 0..MaxRiskVal, expenses : 0..MaxRiskVal,
   savings : {Absent} \cup {Num(v) : v \in 0..MaxSavings}]

\* the field of SpendingPattern assessFinancialRisk reads
RiskPattern == [isUnusual : BOOLEAN]

\* monthlyStats.savings / (monthlyStats.expenses * 3) < p / q; undefined / x is NaN
EmergencyFundRatioLT(st, p, q) ==
  IF st.savings = Absent THEN FALSE
  ELSE JsRatioLT(st.savings[1], st.expenses * 3, p, q)

\* volatility check whose milder branch overwrites the level
VolatilityLevelOverwrite(level, count) ==
  IF count >= 3 THEN "high"
  ELSE IF count > 0 THEN "medium"
  ELSE level

\* the level after the volatility check, given the count of unusual patterns
VolatilityLevel(level, count) ==
  IF count >= 3 THEN "high"
  ELSE IF count > 0 THEN (IF level = "high" THEN "high" ELSE "medium")
  ELSE level

InitRisk ==
  /\ call = "assessFinancialRisk"
  /\ timeZone = 0
  /\ IdleRecommendations /\ IdleInsights /\ IdleProvider
  /\ pc = "expenseRatio"
  /\ clock = 0
  /\ transactions = <<>>
  /\ currentMonthStats \in RiskStats
  /\ spendingPatterns \in SeqsUpTo(RiskPattern, MaxPatterns)
  /\ riskLevel = "low"
  /\ factors = <<>>
  /\ mitigationSteps = <<>>
  /\ riskAssessment = NoResult
  /\ IdleStats /\ IdleForecast /\ IdlePatterns

\* (a) expense to income ratio
CheckExpenseRatio ==
  /\ call = "assessFinancialRisk"
  /\ pc = "expenseRatio"
  /\ LET e == currentMonthStats.expenses
         i == currentMonthStats.income
     IN IF JsRatioGT(e, i, 9, 10)
          THEN /\ factors' = Append(factors, "High expense to income ratio")
               /\ mitigationSteps' = Append(mitigationSteps, "Reduce non-essential expenses")
               /\ riskLevel' = "high"
          ELSE IF JsRatioGT(e, i, 7, 10)
            THEN /\ factors' = Append(factors, "Elevated expense to income ratio")
                 /\ mitigationSteps' =
                      Append(mitigationSteps, "Monitor spending in major categories")
                 /\ riskLevel' = "medium"
            ELSE UNCHANGED <<factors, mitigationSteps, riskLevel>>
  /\ pc' = "volatility"
  /\ UNCHANGED <<call, timeZone, recommendations, insights, providerVars, clock, statsVars, forecastVars, patternVars,
                 currentMonthStats, spendingPatterns, riskAssessment>>

\* volatility check whose milder branch pushes its factor without a mitigation
CheckVolatilityFactorOnly ==
  /\ call = "assessFinancialRisk"
  /\ pc = "volatility"
  /\ LET volatileCategories == SelectSeq(spendingPatterns, LAMBDA p : p.isUnusual)
         count == Len(volatileCategories)
     IN /\ riskLevel' = VolatilityLevel(riskLevel, count)
        /\ IF count >= 3
             THEN /\ factors' =
                       Append(factors, "Multiple categories with unusual spending patterns")
                  /\ mitigationSteps' =
                       Append(mitigationSteps,
                              "Review and stabilize spending across categories")
             ELSE IF count > 0
               THEN /\ factors' =
                         Append(factors, "Some categories show unusual spending patterns")
                    /\ UNCHANGED mitigationSteps
               ELSE UNCHANGED <<factors, mitigationSteps>>
  /\ pc' = "emergencyFund"
  /\ UNCHANGED <<call, timeZone, recommendations, insights, providerVars, clock, statsVars, forecastVars, patternVars,
                 currentMonthStats, spendingPatterns, riskAssessment>>

\* (b) volatile spending patterns
CheckVolatility ==
  /\ call = "assessFinancialRisk"
  /\ pc = "volatility"
  /\ LET volatileCategories == SelectSeq(spendingPatterns, LAMBDA p : p.isUnusual)
         count == Len(volatileCategories)
     IN /\ riskLevel' = VolatilityLevel(riskLevel, count)
        /\ IF count >= 3
             THEN /\ factors' =
                       Append(factors, "Multiple categories with unusual spending patterns")
                  /\ mitigationSteps' =
                       Append(mitigationSteps,
                              "Review and stabilize spending across categories")
             ELSE IF count > 0
               THEN /\ factors' =
                         Append(factors, "Some categories show unusual spending patterns")
                    /\ mitigationSteps' =
                         Append(mitigationSteps, "Monitor categories with unusual spending")
               ELSE UNCHANGED <<factors, mitigationSteps>>
  /\ pc' = "emergencyFund"
  /\ UNCHANGED <<call, timeZone, recommendations, insights, providerVars, clock, statsVars, forecastVars, patternVars,
                 currentMonthStats, spendingPatterns, riskAssessment>>

\* check (c) whose stronger branch raises the level to 'medium' only
CheckEmergencyFundMediumOnly ==
  /\ call = "assessFinancialRisk"
  /\ pc = "emergencyFund"
  /\ IF EmergencyFundRatioLT(currentMonthStats, 1, 2)
       THEN /\ factors' = Append(factors, "Insufficient emergency fund")
            /\ mitigationSteps' =
                 Append(mitigationSteps,
                        "Build emergency fund to cover 3 months of expenses")
            /\ riskLevel' = IF riskLevel = "high" THEN "high" ELSE "medium"
       ELSE IF EmergencyFundRatioLT(currentMonthStats, 1, 1)
         THEN /\ factors' = Append(factors, "Emergency fund below target")
              /\ mitigationSteps' =
                   Append(mitigationSteps, "Continue building emergency fund")
              /\ riskLevel' = IF riskLevel = "high" THEN "high" ELSE "medium"
         ELSE UNCHANGED <<factors, mitigationSteps, riskLevel>>
  /\ pc' = "return"
  /\ UNCHANGED <<call, timeZone, recommendations, insights, providerVars, clock, statsVars, forecastVars, patternVars,
                 currentMonthStats, spendingPatterns, riskAssessment>>

\* (c) emergency fund ratio
CheckEmergencyFund ==
  /\ call = "assessFinancialRisk"
  /\ pc = "emergencyFund"
  /\ IF EmergencyFundRatioLT(currentMonthStats, 1, 2)
       THEN /\ factors' = Append(factors, "Insufficient emergency fund")
            /\ mitigationSteps' =
                 Append(mitigationSteps,
                        "Build emergency fund to cover 3 months of expenses")
            /\ riskLevel' = "high"
       ELSE IF EmergencyFundRatioLT(currentMonthStats, 1, 1)
         THEN /\ factors' = Append(factors, "Emergency fund below target")
              /\ mitigationSteps' =
                   Append(mitigationSteps, "Continue building emergency fund")
              /\ riskLevel' = IF riskLevel = "high" THEN "high" ELSE "medium"
         ELSE UNCHANGED <<factors, mitigationSteps, riskLevel>>
  /\ pc' = "return"
  /\ UNCHANGED <<call, timeZone, recommendations, insights, providerVars, clock, statsVars, forecastVars, patternVars,
                 currentMonthStats, spendingPatterns, riskAssessment>>

\* return { level: riskLevel, factors, mitigationSteps }
ReturnRiskAssessment ==
  /\ call = "assessFinancialRisk"
  /\ pc = "return"
  /\ riskAssessment' = Returned([level |-> riskLevel, factors |-> factors,
                                 mitigationSteps |-> mitigationSteps])
  /\ pc' = "done"
  /\ UNCHANGED <<call, timeZone, recommendations, insights, providerVars, clock, statsVars, forecastVars, patternVars,
                 currentMonthStats, spendingPatterns, riskLevel, factors,
                 mitigationSteps>>

NextRisk ==
  CheckExpenseRatio \/ CheckVolatility \/ CheckEmergencyFund \/ ReturnRiskAssessment

SpecRisk == InitRisk /\ [][NextRisk]_vars

\* ---------------------------------------------------- analyzeSpendingPatterns
\* Category labels.  Transaction declares category_id but no category, so
\* t.category is undefined unless the caller adds it.
CategoryLabels == {Undefined, "food"}

\* amounts are counted in halves of a currency unit, so that totals need not
\* be whole numbers
HalvesPerUnit == 2

\* amounts (10, 10.5 and 13 units) whose quotients fall on and between the
\* thresholds of the trend: 21 / 20 is a change of exactly 5 %, 26 / 20 of
\* exactly 30 %, 20 / 21 of -4.76 %
PatternAmounts == {20, 21, 26}

\* the fields of a transaction analyzeSpendingPatterns reads
LabelledTransaction ==
  [type : TxTypes, amount : PatternAmounts, category : CategoryLabels, date : Time]

subMonths(t, k) == t - k * TicksPerMonth

\* the labels of all transactions, without the Set that removes duplicates
DistinctLabelsWithDuplicates(txs, seen) == [i \in 1..Len(txs) |-> txs[i].category]

RECURSIVE DistinctLabels(_, _)
\* [...new Set(transactions.map(t => t.category))]: labels in order of first
\* occurrence, seen being those already listed
DistinctLabels(txs, seen) ==
  IF txs = <<>> THEN <<>>
  ELSE IF Head(txs).category \in seen THEN DistinctLabels(Tail(txs), seen)
  ELSE <<Head(txs).category>> \o DistinctLabels(Tail(txs), seen \cup {Head(txs).category})

RECURSIVE SumAmountsExpensesNegative(_, _)
\* a sum that counts the amount of an expense negatively
SumAmountsExpensesNegative(txs, idx) ==
  IF idx = {} THEN 0
  ELSE LET i == CHOOSE j \in idx : TRUE
       IN (IF txs[i].type = "expense" THEN 0 - txs[i].amount ELSE txs[i].amount)
            + SumAmountsExpensesNegative(txs, idx \ {i})

RECURSIVE SumAmounts(_, _)
\* reduce((sum, t) => sum + t.amount, 0) over the transactions at positions idx
SumAmounts(txs, idx) ==
  IF idx = {} THEN 0
  ELSE LET i == CHOOSE j \in idx : TRUE
       IN txs[i].amount + SumAmounts(txs, idx \ {i})

\* Every comparison of the two filters evaluates new Date() afresh.  For n
\* transactions of the category the recent filter makes read i for the i-th,
\* the older filter reads n + 2i - 1 and n + 2i.  The clock advances at most
\* once during a forEach iteration, after `ticksAfter` reads.
ReadClock(now, read, ticksAfter) == IF read > ticksAfter THEN now + 1 ELSE now

RecentPositions(ct, now, ticksAfter) ==
  {i \in 1..Len(ct) : ct[i].date >= subMonths(ReadClock(now, i, ticksAfter), 1)}

OlderPositions(ct, now, ticksAfter) ==
  {i \in 1..Len(ct) :
     /\ ct[i].date < subMonths(ReadClock(now, Len(ct) + 2 * i - 1, ticksAfter), 1)
     /\ ct[i].date >= subMonths(ReadClock(now, Len(ct) + 2 * i, ticksAfter), 2)}

Abs(x) == IF x < 0 THEN 0 - x ELSE x

\* percentage change that reports 0 when the older window is empty
PercentageChangeZeroSentinel(recentTotal, olderTotal) ==
  IF olderTotal = 0 THEN <<0, 1>>
  ELSE <<(recentTotal - olderTotal) * 100, olderTotal>>

\* olderTotal === 0 ? 100 : ((recentTotal - olderTotal) / olderTotal) * 100,
\* as the quotient << numerator, denominator >> with a positive denominator
PercentageChange(recentTotal, olderTotal) ==
  IF olderTotal = 0 THEN <<100, 1>>
  ELSE <<(recentTotal - olderTotal) * 100, olderTotal>>

\* pattern that is unusual from a change of more than 20 % on
MakePatternUnusualAbove20(category, recentTotal, olderTotal) ==
  LET change == PercentageChange(recentTotal, olderTotal)
      num == change[1]
      den == change[2]
  IN [category |-> category,
      trend |-> IF Abs(num) < 5 * den THEN "stable"
                ELSE IF num > 0 THEN "increasing" ELSE "decreasing",
      percentageChange |-> RoundDiv(num, den),
      isUnusual |-> Abs(num) > 20 * den,
      amount |-> RoundDiv(recentTotal, HalvesPerUnit)]

\* pattern whose two thresholds include the boundary values 5 and 30
MakePatternInclusiveThresholds(category, recentTotal, olderTotal) ==
  LET change == PercentageChange(recentTotal, olderTotal)
      num == change[1]
      den == change[2]
  IN [category |-> category,
      trend |-> IF Abs(num) <= 5 * den THEN "stable"
                ELSE IF num > 0 THEN "increasing" ELSE "decreasing",
      percentageChange |-> RoundDiv(num, den),
      isUnusual |-> Abs(num) >= 30 * den,
      amount |-> RoundDiv(recentTotal, HalvesPerUnit)]

\* the object pushed for one category
MakePattern(category, recentTotal, olderTotal) ==
  LET change == PercentageChange(recentTotal, olderTotal)
      num == change[1]
      den == change[2]
  IN [category |-> category,
      trend |-> IF Abs(num) < 5 * den THEN "stable"
                ELSE IF num > 0 THEN "increasing" ELSE "decreasing",
      percentageChange |-> RoundDiv(num, den),
      isUnusual |-> Abs(num) > 30 * den,
      amount |-> RoundDiv(recentTotal, HalvesPerUnit)]

\* The call is made at least two months into the time line, so that both
\* windows lie on it.
InitPatterns ==
  /\ call = "analyzeSpendingPatterns"
  /\ timeZone = 0
  /\ IdleRecommendations /\ IdleInsights /\ IdleProvider
  /\ pc = "ready"
  /\ clock \in {t \in Time : subMonths(t, 2) >= 0}
  /\ transactions \in SeqsUpTo(LabelledTransaction, MaxTx)
  /\ SortedByDateDesc(transactions)
  /\ IdlePatterns
  /\ IdleStats /\ IdleForecast /\ IdleRisk

\* const patterns = []; const categories = [...new Set(...)]
EnterAnalyzeSpendingPatterns ==
  /\ call = "analyzeSpendingPatterns"
  /\ pc = "ready"
  /\ pendingCategories' = DistinctLabels(transactions, {})
  /\ patterns' = <<>>
  /\ recentTransactions' = {}
  /\ olderTransactions' = {}
  /\ startedAt' = clock
  /\ pc' = IF pendingCategories' = <<>> THEN "done" ELSE "forEach"
  /\ UNCHANGED <<call, timeZone, recommendations, insights, providerVars, clock, statsVars, forecastVars, riskVars>>

\* one iteration of categories.forEach
AnalyzeCategory ==
  /\ call = "analyzeSpendingPatterns"
  /\ pc = "forEach"
  /\ LET category == Head(pendingCategories)
         categoryTransactions ==
           SelectSeq(transactions, LAMBDA t : t.category = category)
         reads == 3 * Len(categoryTransactions)
     IN \E ticksAfter \in 0..reads :
          /\ ticksAfter < reads => clock < MaxTime
          /\ recentTransactions' = RecentPositions(categoryTransactions, clock, ticksAfter)
          /\ olderTransactions' = OlderPositions(categoryTransactions, clock, ticksAfter)
          /\ LET recentTotal == SumAmounts(categoryTransactions, recentTransactions')
                 olderTotal == SumAmounts(categoryTransactions, olderTransactions')
             IN patterns' = Append(patterns, MakePattern(category, recentTotal, olderTotal))
          /\ clock' = IF ticksAfter < reads THEN clock + 1 ELSE clock
  /\ pendingCategories' = Tail(pendingCategories)
  /\ pc' = IF pendingCategories' = <<>> THEN "done" ELSE "forEach"
  /\ UNCHANGED <<call, timeZone, recommendations, insights, providerVars, startedAt, statsVars, forecastVars, riskVars>>

NextPatterns == EnterAnalyzeSpendingPatterns \/ AnalyzeCategory

SpecPatterns == InitPatterns /\ [][NextPatterns]_vars

\* -------------------------------------------------- generateAIRecommendations
\* One month's figures as generateAIRecommendations reads them.  MonthlyStats
\* declares neither savings nor debt, so both may be undefined.
RecommendationStats ==
  [income : 0..MaxRecVal, expenses : 0..MaxRecVal,
   savings : {Absent} \cup {Num(v) : v \in {0, 6, 7}},
   debt : {Absent} \cup {Num(v) : v \in {0, 2, 3}}]

\* the fields of SpendingPattern generateAIRecommendations reads
TrendPattern ==
  [category : {"food", "rent"}, trend : {"increasing", "decreasing", "stable"}]

\* values of the riskAssessment argument
RiskAssessments ==
  { [level |-> "low", factors |-> <<>>, mitigationSteps |-> <<>>],
    [level |-> "medium",
     factors |-> <<"Elevated expense to income ratio", "Emergency fund below target">>,
     mitigationSteps |-> <<"Monitor spending in major categories",
                           "Continue building emergency fund">>],
    [level |-> "high", factors |-> <<"High expense to income ratio">>,
     mitigationSteps |-> <<"Reduce non-essential expenses">>] }

RECURSIVE Join(_, _)
\* Array.prototype.join
Join(strings, separator) ==
  IF strings = <<>> THEN ""
  ELSE IF Len(strings) = 1 THEN strings[1]
  ELSE strings[1] \o separator \o Join(Tail(strings), separator)

\* filter that keeps every pattern that is not stable
IncreasingCategoriesNotStable(ps) == SelectSeq(ps, LAMBDA p : p.trend # "stable")

\* spendingPatterns.filter(p => p.trend === 'increasing')
IncreasingCategories(ps) == SelectSeq(ps, LAMBDA p : p.trend = "increasing")

\* monthlyStats.savings > monthlyStats.expenses * 6; undefined > x is false
SavingsExceed(stats) ==
  stats.savings # Absent /\ stats.savings[1] > stats.expenses * 6

\* monthlyStats.debt > monthlyStats.income * 0.5; undefined > x is false
DebtExceeds(stats) ==
  stats.debt # Absent /\ 2 * stats.debt[1] > stats.income

\* recommendations that leave out the investment advice at a high risk level
generateAIRecommendationsRiskAware(stats, ps, assessment) ==
  LET increasingCategories == IncreasingCategories(ps)
      names == [i \in 1..Len(increasingCategories) |-> increasingCategories[i].category]
      saving ==
        IF JsRatioLT(stats.income - stats.expenses, stats.income, 1, 5)
          THEN << [category |-> "saving",
                   title |-> "Boost Your Savings Rate",
                   description |-> "Set up automatic transfers to savings on payday",
                   potentialImpact |-> "Increase savings rate by 5-10%",
                   difficulty |-> "easy"] >>
          ELSE <<>>
      spending ==
        IF Len(increasingCategories) > 0
          THEN << [category |-> "spending",
                   title |-> "Optimize High-Growth Categories",
                   description |-> "Review spending in " \o Join(names, ", "),
                   potentialImpact |-> "Reduce monthly expenses by 10-15%",
                   difficulty |-> "medium"] >>
          ELSE <<>>
      investment ==
        IF SavingsExceed(stats) /\ assessment.level # "high"
          THEN << [category |-> "investment",
                   title |-> "Consider Investment Options",
                   description |-> "Explore diversifying excess savings into investments",
                   potentialImpact |-> "Potential 5-8% annual returns on investments",
                   difficulty |-> "hard"] >>
          ELSE <<>>
      debt ==
        IF DebtExceeds(stats)
          THEN << [category |-> "debt",
                   title |-> "Debt Reduction Strategy",
                   description |-> "Implement debt snowball or avalanche method",
                   potentialImpact |-> "Reduce interest payments by 20-30%",
                   difficulty |-> "medium"] >>
          ELSE <<>>
  IN saving \o spending \o investment \o debt

\* the riskAssessment argument is never read
generateAIRecommendations(stats, ps, assessment) ==
  LET increasingCategories == IncreasingCategories(ps)
      names == [i \in 1..Len(increasingCategories) |-> increasingCategories[i].category]
      saving ==
        IF JsRatioLT(stats.income - stats.expenses, stats.income, 1, 5)
          THEN << [category |-> "saving",
                   title |-> "Boost Your Savings Rate",
                   description |-> "Set up automatic transfers to savings on payday",
                   potentialImpact |-> "Increase savings rate by 5-10%",
                   difficulty |-> "easy"] >>
          ELSE <<>>
      spending ==
        IF Len(increasingCategories) > 0
          THEN << [category |-> "spending",
                   title |-> "Optimize High-Growth Categories",
                   description |-> "Review spending in " \o Join(names, ", "),
                   potentialImpact |-> "Reduce monthly expenses by 10-15%",
                   difficulty |-> "medium"] >>
          ELSE <<>>
      investment ==
        IF SavingsExceed(stats)
          THEN << [category |-> "investment",
                   title |-> "Consider Investment Options",
                   description |-> "Explore diversifying excess savings into investments",
                   potentialImpact |-> "Potential 5-8% annual returns on investments",
                   difficulty |-> "hard"] >>
          ELSE <<>>
      debt ==
        IF DebtExceeds(stats)
          THEN << [category |-> "debt",
                   title |-> "Debt Reduction Strategy",
                   description |-> "Implement debt snowball or avalanche method",
                   potentialImpact |-> "Reduce interest payments by 20-30%",
                   difficulty |-> "medium"] >>
          ELSE <<>>
  IN saving \o spending \o investment \o debt

InitRecommendations ==
  /\ call = "generateAIRecommendations"
  /\ pc = "ready"
  /\ clock = 0
  /\ timeZone = 0
  /\ transactions = <<>>
  /\ currentMonthStats \in RecommendationStats
  /\ spendingPatterns \in SeqsUpTo(TrendPattern, MaxTrendPatterns)
  /\ riskAssessment \in {Returned(r) : r \in RiskAssessments}
  /\ riskLevel = "low"
  /\ factors = <<>>
  /\ mitigationSteps = <<>>
  /\ recommendations = NoResult
  /\ IdleInsights /\ IdleProvider
  /\ IdleStats /\ IdleForecast /\ IdlePatterns

CallGenerateAIRecommendations ==
  /\ call = "generateAIRecommendations"
  /\ pc = "ready"
  /\ recommendations' =
       Returned(generateAIRecommendations(currentMonthStats, spendingPatterns,
                                          riskAssessment.value))
  /\ pc' = "done"
  /\ UNCHANGED <<call, timeZone, clock, insights, providerVars, statsVars, forecastVars, riskVars,
                 patternVars>>

NextRecommendations == CallGenerateAIRecommendations

SpecRecommendations == InitRecommendations /\ [][NextRecommendations]_vars

\* ------------------------------------------------- the analytics as a whole
\* ------------------------------------------------ generateFinancialInsights
MaxInsightVal == 5
MaxInsightTx == 4
MaxInsightPatterns == 2

\* an optional field that is set, as opposed to Absent
Present(v) == <<v>>

\* the fields of MonthlyStats the insights read
InsightStats == [income : 0..MaxInsightVal, expenses : 0..MaxInsightVal]

\* patterns as analyzeSpendingPatterns returns them
InsightPatterns ==
  { [category |-> "food", trend |-> "increasing", percentageChange |-> 45,
     isUnusual |-> TRUE, amount |-> 30],
    [category |-> "rent", trend |-> "decreasing", percentageChange |-> -40,
     isUnusual |-> TRUE, amount |-> 10],
    [category |-> "food", trend |-> "stable", percentageChange |-> 2,
     isUnusual |-> FALSE, amount |-> 20],
    [category |-> "rent", trend |-> "increasing", percentageChange |-> 10,
     isUnusual |-> FALSE, amount |-> 20] }

\* the fields of a transaction the insights read; Transaction declares no
\* category, so t.category is undefined unless the caller adds it
InsightTransactions ==
  { [type |-> "expense", amount |-> 1, category |-> "food", date |-> 0],
    [type |-> "income", amount |-> 2, category |-> Undefined, date |-> 3] }

MonthNames ==
  << "Jan", "Feb", "Mar", "Apr", "May", "Jun",
     "Jul", "Aug", "Sep", "Oct", "Nov", "Dec" >>

\* the day of the month, a month having TicksPerMonth days
DayOfMonth(t) == (LocalReading(t) % TicksPerMonth) + 1

\* format(new Date(t.date), 'MMM d')
formatMonthDay(t) == MonthNames[formatMonthName(t)] \o " " \o ToString(DayOfMonth(t))

\* savings rate test that includes the value 20
LowSavingsRateInclusive(stats) ==
  \/ JsRatioLT(stats.income - stats.expenses, stats.income, 20, 100)
  \/ stats.income > 0 /\ (stats.income - stats.expenses) * 100 = 20 * stats.income

\* savingsRate < 20 for savingsRate = (income - expenses) / income * 100;
\* x / 0 is -Infinity for x < 0 and 0 / 0 is NaN, which is below nothing
LowSavingsRate(stats) ==
  JsRatioLT(stats.income - stats.expenses, stats.income, 20, 100)

\* `${Math.round(savingsRate)}`, for expenses >= 0
RoundedSavingsRate(stats) ==
  IF stats.income = 0
    THEN IF stats.expenses = 0 THEN "NaN" ELSE "-Infinity"
    ELSE ToString(RoundDiv((stats.income - stats.expenses) * 100, stats.income))

\* the insight pushed at lines 272-281
SavingsInsight(stats) ==
  [type |-> "warning",
   title |-> "Low Savings Rate",
   description |-> "Your current savings rate is " \o RoundedSavingsRate(stats)
                     \o "%. Consider aiming for at least 20%.",
   actionItems |-> Present(<< "Review non-essential expenses",
                              "Set up automatic savings transfers",
                              "Look for additional income opportunities" >>)]

\* insight about a pattern that carries the action items whatever the trend
PatternInsightAlwaysActions(pattern) ==
  [type |-> "info",
   title |-> "Unusual " \o pattern.category \o " Spending",
   description |-> "Your " \o pattern.category \o " spending has " \o pattern.trend
                     \o " by " \o ToString(Abs(pattern.percentageChange))
                     \o "% compared to last month.",
   actionItems |-> Present(<< "Review recent " \o pattern.category \o " expenses",
                              "Look for more cost-effective alternatives",
                              "Set a budget for this category" >>)]

\* the insight pushed for one unusual pattern, lines 288-298
PatternInsight(pattern) ==
  [type |-> "info",
   title |-> "Unusual " \o pattern.category \o " Spending",
   description |-> "Your " \o pattern.category \o " spending has " \o pattern.trend
                     \o " by " \o ToString(Abs(pattern.percentageChange))
                     \o "% compared to last month.",
   actionItems |->
     IF pattern.trend = "increasing"
       THEN Present(<< "Review recent " \o pattern.category \o " expenses",
                       "Look for more cost-effective alternatives",
                       "Set a budget for this category" >>)
       ELSE Absent]

\* the three last transactions above the threshold instead of the three first
highValueTransactionsLastThree(txs, stats) ==
  LET large == SelectSeq(txs, LAMBDA t : 5 * t.amount > stats.income)
  IN IF Len(large) <= 3 THEN large ELSE SubSeq(large, Len(large) - 2, Len(large))

\* transactions.filter(t => t.amount > monthlyStats.income * 0.2).slice(0, 3)
highValueTransactions(txs, stats) ==
  LET large == SelectSeq(txs, LAMBDA t : 5 * t.amount > stats.income)
  IN IF Len(large) <= 3 THEN large ELSE SubSeq(large, 1, 3)

\* the insight pushed at lines 307-314
LargeTransactionsInsight(high) ==
  [type |-> "info",
   title |-> "Large Transactions Detected",
   description |-> "You have some significant expenses that might impact your budget.",
   actionItems |->
     Present([i \in 1..Len(high) |->
                "Review " \o high[i].category \o " expense of $"
                  \o ToString(high[i].amount) \o " on " \o formatMonthDay(high[i].date)])]

generateFinancialInsights(txs, stats, ps) ==
  LET savings == IF LowSavingsRate(stats) THEN <<SavingsInsight(stats)>> ELSE <<>>
      unusualPatterns == SelectSeq(ps, LAMBDA p : p.isUnusual)
      unusual == [i \in 1..Len(unusualPatterns) |-> PatternInsight(unusualPatterns[i])]
      high == highValueTransactions(txs, stats)
      large == IF Len(high) > 0 THEN <<LargeTransactionsInsight(high)>> ELSE <<>>
  IN savings \o unusual \o large

InitInsights ==
  /\ call = "generateFinancialInsights"
  /\ pc = "ready"
  /\ clock = 0
  /\ timeZone = 0
  /\ transactions \in SeqsUpTo(InsightTransactions, MaxInsightTx)
  /\ currentMonthStats \in InsightStats
  /\ spendingPatterns \in SeqsUpTo(InsightPatterns, MaxInsightPatterns)
  /\ riskLevel = "low"
  /\ factors = <<>>
  /\ mitigationSteps = <<>>
  /\ riskAssessment = NoResult
  /\ startDate = 0 /\ endDate = 0 /\ result = NoResult
  /\ IdleRecommendations /\ IdleInsights /\ IdleProvider
  /\ IdleForecast /\ IdlePatterns

\* const insights = generateFinancialInsights(transactions, currentMonthStats,
\* spendingPatterns)
CallGenerateFinancialInsights ==
  /\ call = "generateFinancialInsights"
  /\ pc = "ready"
  /\ insights' =
       Returned(generateFinancialInsights(transactions, currentMonthStats,
                                          spendingPatterns))
  /\ pc' = "done"
  /\ UNCHANGED <<call, timeZone, clock, recommendations, providerVars, statsVars,
                 forecastVars, riskVars, patternVars>>

NextInsights == CallGenerateFinancialInsights

SpecInsights == InitInsights /\ [][NextInsights]_vars

\* ------------------------------------------------------------- DataProvider
MaxCalls == 3

TransactionIds == {"t1", "t2"}

\* the fields of a row of the transactions table that the provider reads
StoredTransaction == [id : TransactionIds, type : TxTypes, amount : Amounts]

\* the table when the provider is mounted
InitialTables ==
  { << [id |-> "t1", type |-> "expense", amount |-> 1],
       [id |-> "t2", type |-> "income", amount |-> 2] >>,
    << [id |-> "t1", type |-> "income", amount |-> 1] >> }

\* updates: Partial<Transaction>, a field being Absent when it is not given
Updates ==
  { [type |-> Absent, amount |-> Num(2)],
    [type |-> Present("income"), amount |-> Absent] }

NoUpdates == [type |-> Absent, amount |-> Absent]

\* { ...transaction, ...updates }
Merge(transaction, updates) ==
  [transaction EXCEPT
     !.type = IF updates.type = Absent THEN @ ELSE updates.type[1],
     !.amount = IF updates.amount = Absent THEN @ ELSE updates.amount[1]]

\* list.map(transaction => transaction.id === id ? { ...transaction, ...updates }
\* : transaction)
MapUpdate(list, id, updates) ==
  [i \in 1..Len(list) |-> IF list[i].id = id THEN Merge(list[i], updates) ELSE list[i]]

\* list.filter(transaction => transaction.id !== id)
FilterOut(list, id) == SelectSeq(list, LAMBDA t : t.id # id)

RECURSIVE calculateBalance(_)
\* the value calculateBalance passes to setBalance
calculateBalance(list) ==
  IF list = <<>> THEN InitialBalance
  ELSE LET acc == calculateBalance(SubSeq(list, 1, Len(list) - 1))
           transaction == list[Len(list)]
       IN IF transaction.type = "income"
            THEN [acc EXCEPT !.income = @ + transaction.amount,
                             !.total = @ + transaction.amount]
            ELSE [acc EXCEPT !.expenses = @ + transaction.amount,
                             !.total = @ - transaction.amount]

\* An asynchronous call in flight.  closure is the transactions constant of the
\* render whose function was called; pc is "request" until the server has
\* answered, then "response" or "error"; data is what a select returned.
NewCall(op, id, updates) ==
  [op |-> op, id |-> id, updates |-> updates, closure |-> rendered,
   data |-> <<>>, pc |-> "request"]

RemoveAt(list, i) == SubSeq(list, 1, i - 1) \o SubSeq(list, i + 1, Len(list))

\* The provider is mounted with a session: the effect has called fetchData.
InitProvider ==
  /\ call = "DataProvider"
  /\ pc = "mounted"
  /\ clock = 0
  /\ timeZone = 0
  /\ table \in InitialTables
  /\ transactions = <<>>
  /\ rendered = <<>>
  /\ balance = InitialBalance
  /\ calls = << NewCall("fetchData", Undefined, NoUpdates) >>
  /\ issued = 1
  /\ startDate = 0 /\ endDate = 0 /\ result = NoResult
  /\ IdleRecommendations /\ IdleInsights
  /\ IdleForecast /\ IdleRisk /\ IdlePatterns

\* fetchData is called: by refreshData or by a postgres_changes event
CallFetchData ==
  /\ call = "DataProvider"
  /\ issued < MaxCalls
  /\ calls' = Append(calls, NewCall("fetchData", Undefined, NoUpdates))
  /\ issued' = issued + 1
  /\ UNCHANGED <<call, pc, timeZone, clock, recommendations, insights, statsVars,
                 forecastVars, riskVars, patternVars, table, rendered, balance>>

\* updateTransaction(id, updates) is called, up to its await
CallUpdateTransaction ==
  /\ call = "DataProvider"
  /\ issued < MaxCalls
  /\ \E id \in TransactionIds, updates \in Updates :
       calls' = Append(calls, NewCall("updateTransaction", id, updates))
  /\ issued' = issued + 1
  /\ UNCHANGED <<call, pc, timeZone, clock, recommendations, insights, statsVars,
                 forecastVars, riskVars, patternVars, table, rendered, balance>>

\* deleteTransaction(id) is called, up to its await
CallDeleteTransaction ==
  /\ call = "DataProvider"
  /\ issued < MaxCalls
  /\ \E id \in TransactionIds :
       calls' = Append(calls, NewCall("deleteTransaction", id, NoUpdates))
  /\ issued' = issued + 1
  /\ UNCHANGED <<call, pc, timeZone, clock, recommendations, insights, statsVars,
                 forecastVars, riskVars, patternVars, table, rendered, balance>>

\* the server executes the request of a call, or fails it
ServerAnswers ==
  /\ call = "DataProvider"
  /\ \E i \in 1..Len(calls) :
       /\ calls[i].pc = "request"
       /\ \/ /\ calls' = [calls EXCEPT ![i].pc = "error"]
             /\ table' = table
          \/ /\ calls' = [calls EXCEPT ![i].pc = "response", ![i].data = table]
             /\ table' =
                  IF calls[i].op = "updateTransaction"
                    THEN MapUpdate(table, calls[i].id, calls[i].updates)
                  ELSE IF calls[i].op = "deleteTransaction"
                    THEN FilterOut(table, calls[i].id)
                  ELSE table
  /\ UNCHANGED <<call, pc, timeZone, clock, recommendations, insights, statsVars,
                 forecastVars, riskVars, patternVars, rendered, balance, issued>>

\* the rest of fetchData after its await (the categories are left out)
ResumeFetchData ==
  /\ call = "DataProvider"
  /\ \E i \in 1..Len(calls) :
       /\ calls[i].op = "fetchData"
       /\ calls[i].pc = "response"
       /\ transactions' = calls[i].data
       /\ balance' = calculateBalance(calls[i].data)
       /\ calls' = RemoveAt(calls, i)
  /\ UNCHANGED <<call, pc, timeZone, clock, recommendations, insights, startDate,
                 endDate, result, forecastVars, riskVars, patternVars, table,
                 rendered, issued>>

\* the rest of updateTransaction after its await: the state is updated from
\* the previous state, the balance from the transactions of the closure
ResumeUpdateTransaction ==
  /\ call = "DataProvider"
  /\ \E i \in 1..Len(calls) :
       /\ calls[i].op = "updateTransaction"
       /\ calls[i].pc = "response"
       /\ transactions' = MapUpdate(transactions, calls[i].id, calls[i].updates)
       /\ balance' =
            calculateBalance(MapUpdate(calls[i].closure, calls[i].id, calls[i].updates))
       /\ calls' = RemoveAt(calls, i)
  /\ UNCHANGED <<call, pc, timeZone, clock, recommendations, insights, startDate,
                 endDate, result, forecastVars, riskVars, patternVars, table,
                 rendered, issued>>

\* the rest of deleteTransaction after its await: state and balance are both
\* set from the transactions of the closure
ResumeDeleteTransaction ==
  /\ call = "DataProvider"
  /\ \E i \in 1..Len(calls) :
       /\ calls[i].op = "deleteTransaction"
       /\ calls[i].pc = "response"
       /\ LET updatedTransactions == FilterOut(calls[i].closure, calls[i].id)
          IN /\ transactions' = updatedTransactions
             /\ balance' = calculateBalance(updatedTransactions)
       /\ calls' = RemoveAt(calls, i)
  /\ UNCHANGED <<call, pc, timeZone, clock, recommendations, insights, startDate,
                 endDate, result, forecastVars, riskVars, patternVars, table,
                 rendered, issued>>

\* catch (error) { console.error(...) }
CatchError ==
  /\ call = "DataProvider"
  /\ \E i \in 1..Len(calls) :
       /\ calls[i].pc = "error"
       /\ calls' = RemoveAt(calls, i)
  /\ UNCHANGED <<call, pc, timeZone, clock, recommendations, insights, statsVars,
                 forecastVars, riskVars, patternVars, table, rendered, balance, issued>>

\* the component renders again: its functions now close over the new state
Render ==
  /\ call = "DataProvider"
  /\ rendered # transactions
  /\ rendered' = transactions
  /\ UNCHANGED <<call, pc, timeZone, clock, recommendations, insights, statsVars,
                 forecastVars, riskVars, patternVars, table, balance, calls, issued>>

NextProvider ==
  \/ CallFetchData \/ CallUpdateTransaction \/ CallDeleteTransaction
  \/ ServerAnswers
  \/ ResumeFetchData \/ ResumeUpdateTransaction \/ ResumeDeleteTransaction
  \/ CatchError
  \/ Render

SpecProvider == InitProvider /\ [][NextProvider]_vars

Init ==
  \/ InitStats \/ InitForecast \/ InitRisk \/ InitPatterns \/ InitRecommendations
  \/ InitInsights \/ InitProvider \/ InitForecastDouble

Next ==
  \/ NextStats \/ NextForecast \/ NextRisk \/ NextPatterns \/ NextRecommendations
  \/ NextInsights \/ NextProvider \/ NextForecastDouble

Spec == Init /\ [][Next]_vars

\* ------------------------------------------------ claims: the Aggregator
RECURSIVE SumBalances(_)
\* sum of the balance fields of a sequence of MonthlyStats
SumBalances(s) == IF s = <<>> THEN 0 ELSE Head(s).balance + SumBalances(Tail(s))

RECURSIVE SumCategories(_)
\* sum of the amounts of a categories map
SumCategories(categories) ==
  IF DOMAIN categories = {} THEN 0
  ELSE LET id == CHOOSE k \in DOMAIN categories : TRUE
       IN categories[id].amount +
          SumCategories([k \in (DOMAIN categories) \ {id} |-> categories[k]])

RECURSIVE NetBetween(_, _, _)
\* income minus expenses of the transactions dated in [from, to]
NetBetween(txs, from, to) ==
  IF txs = <<>> THEN 0
  ELSE LET t == Head(txs)
       IN (IF t.date >= from /\ t.date <= to
             THEN (IF t.type = "income" THEN t.amount ELSE 0 - t.amount)
             ELSE 0) + NetBetween(Tail(txs), from, to)

StatsReturned ==
  call = "calculateMonthlyStats" /\ pc = "done" /\ result.status = "returned"

TotalBalance == SumBalances(result.value)

NextLabel(a, b) ==
  \/ b[1] = a[1] /\ b[2] = a[2] + 1
  \/ b[1] = a[1] + 1 /\ a[2] = MonthsPerYear /\ b[2] = 1

\* C9: for startDate <= endDate the call returns exactly one entry per
\* calendar month touched by [startDate, endDate], in chronological order with
\* distinct year-month labels; startDate = endDate yields exactly one entry.
C9_OneEntryPerTouchedMonth ==
  (call = "calculateMonthlyStats" /\ pc = "done" /\ startDate <= endDate) =>
    /\ result.status = "returned"
    /\ Len(result.value) = MonthIndex(endDate) - MonthIndex(startDate) + 1
    /\ result.value[1].month = formatYearMonth(startDate)
    /\ result.value[Len(result.value)].month = formatYearMonth(endDate)
    /\ \A i \in 1..(Len(result.value) - 1) :
         NextLabel(result.value[i].month, result.value[i + 1].month)
    /\ \A i, j \in 1..Len(result.value) :
         i # j => result.value[i].month # result.value[j].month
    /\ (startDate = endDate => Len(result.value) = 1)

\* a range from inside one year to the first instant of a month of the next year
C9_Witness ==
  /\ StatsReturned
  /\ startDate > startOfMonth(startDate)
  /\ endDate = startOfMonth(endDate)
  /\ Len(result.value) >= 2
  /\ result.value[1].month[1] < result.value[Len(result.value)].month[1]

\* C10 (as claimed): a reversed range (startDate > endDate) returns an empty
\* sequence and does not fail.
C10_ReversedRangeEmpty ==
  (call = "calculateMonthlyStats" /\ pc = "done" /\ startDate > endDate) =>
    result = Returned(<<>>)

RECURSIVE GrossOfMonth(_, _)
\* total amount, income and expenses alike, of the transactions whose date
\* string (a UTC date) lies in the calendar month with the given label
GrossOfMonth(txs, label) ==
  IF txs = <<>> THEN 0
  ELSE LET t == Head(txs)
           m == EpochMonth + (t.date \div TicksPerMonth)
           written == <<EpochYear + (m \div MonthsPerYear), (m % MonthsPerYear) + 1>>
       IN (IF written = label THEN t.amount ELSE 0) + GrossOfMonth(Tail(txs), label)

RECURSIVE GrossOfEntries(_)
\* income plus expenses over a sequence of MonthlyStats
GrossOfEntries(s) ==
  IF s = <<>> THEN 0 ELSE Head(s).income + Head(s).expenses + GrossOfEntries(Tail(s))

\* C18 (as claimed): a transaction dated on the first or the last calendar
\* day of an enumerated month is counted in that month's entry and in no
\* other, and every transaction contributes to at most one month.  A day is
\* a tick; every entry then holds exactly the money of the transactions dated
\* in its month, and all entries together hold no transaction twice.
C18_BoundaryDaysBelongToTheirMonth ==
  StatsReturned =>
    /\ \A k \in 1..Len(result.value) :
         result.value[k].income + result.value[k].expenses =
           GrossOfMonth(transactions, result.value[k].month)
    /\ GrossOfEntries(result.value) <=
         SumAmounts(transactions, 1..Len(transactions))

Incomes(stats) == [i \in 1..Len(stats) |-> stats[i].income]
Expenses(stats) == [i \in 1..Len(stats) |-> stats[i].expenses]

RECURSIVE SumOfDeltas(_, _)
\* (xs[2] - xs[1]) + ... + (xs[k] - xs[k-1])
SumOfDeltas(xs, k) ==
  IF k < 2 THEN 0 ELSE SumOfDeltas(xs, k - 1) + (xs[k] - xs[k - 1])

\* r is p / q rounded to the nearest integer (q > 0), a half rounding up
IsNearest(r, p, q) == 2 * q * r - q <= 2 * p /\ 2 * p < 2 * q * r + q

\* r = round(last(xs) + average of the deltas of xs)
IsTrendStep(r, xs) ==
  LET n == Len(xs) - 1
  IN IsNearest(r, xs[Len(xs)] * n + SumOfDeltas(xs, Len(xs)), n)

ForecastReturned == call = "forecast" /\ forecast.status = "returned"
MonthlyForecastReturned == call = "forecast" /\ monthlyForecast.status = "returned"

\* C5: with fewer than 2 monthly entries generateForecast returns a zeroed
\* forecast with riskLevel 'medium' and the single recommendation 'Not enough
\* data for accurate forecast', and generateMonthlyForecast returns exactly
\* `months` entries whose income, expenses and balance are 0.
C5_InsufficientHistory ==
  Len(monthlyStats) < 2 =>
    /\ ForecastReturned =>
         /\ forecast.value.predictedIncome = 0
         /\ forecast.value.predictedExpenses = 0
         /\ forecast.value.predictedBalance = 0
         /\ forecast.value.riskLevel = "medium"
         /\ forecast.value.recommendations = <<"Not enough data for accurate forecast">>
    /\ MonthlyForecastReturned =>
         /\ Len(monthlyForecast.value) = months
         /\ \A i \in 1..Len(monthlyForecast.value) :
              /\ monthlyForecast.value[i].income = 0
              /\ monthlyForecast.value[i].expenses = 0
              /\ monthlyForecast.value[i].balance = 0

\* both forecasts were asked with a one-month history that has money in it
C5_Witness ==
  /\ ForecastReturned
  /\ MonthlyForecastReturned
  /\ Len(monthlyStats) = 1
  /\ monthlyStats[1].income > 0
  /\ monthlyStats[1].expenses > 0
  /\ months = MaxForecastMonths

\* C6: for N >= 2 months predictedIncome = round(income[N-1] + average income
\* delta), predictedExpenses likewise, predictedBalance is their difference;
\* the documented example gives 1400, 720, 680.
C6_SinglePeriodPrediction ==
  (ForecastReturned /\ Len(monthlyStats) >= 2) =>
    /\ IsTrendStep(forecast.value.predictedIncome, Incomes(monthlyStats))
    /\ IsTrendStep(forecast.value.predictedExpenses, Expenses(monthlyStats))
    /\ forecast.value.predictedBalance =
         forecast.value.predictedIncome - forecast.value.predictedExpenses
    /\ (monthlyStats = << [income |-> 1000, expenses |-> 800],
                          [income |-> 1200, expenses |-> 760] >>) =>
         /\ forecast.value.predictedIncome = 1400
         /\ forecast.value.predictedExpenses = 720
         /\ forecast.value.predictedBalance = 680

\* a three-month history whose average deltas are not whole numbers
C6_Witness ==
  /\ ForecastReturned
  /\ Len(monthlyStats) = 3
  /\ SumOfDeltas(Incomes(monthlyStats), 3) % 2 = 1
  /\ SumOfDeltas(Expenses(monthlyStats), 3) % 2 = 1
  /\ monthlyStats[2].income # monthlyStats[1].income

\* C7: for N >= 2 months riskLevel is 'high' exactly when predictedBalance < 0,
\* otherwise 'medium' exactly when predictedExpenses / predictedIncome > 0.8,
\* otherwise 'low'.
C7_RiskClassification ==
  (ForecastReturned /\ Len(monthlyStats) >= 2) =>
    LET f == forecast.value
        ratioHigh == JsRatioGT(f.predictedExpenses, f.predictedIncome, 8, 10)
    IN /\ (f.riskLevel = "high") <=> (f.predictedBalance < 0)
       /\ (f.riskLevel = "medium") <=> (f.predictedBalance >= 0 /\ ratioHigh)
       /\ (f.riskLevel = "low") <=> (f.predictedBalance >= 0 /\ ~ratioHigh)

\* a non-negative balance with an expense ratio strictly between 0.8 and 0.9
C7_Witness ==
  /\ ForecastReturned
  /\ Len(monthlyStats) >= 2
  /\ forecast.value.predictedBalance > 0
  /\ forecast.value.predictedIncome > 0
  /\ 10 * forecast.value.predictedExpenses > 8 * forecast.value.predictedIncome
  /\ 10 * forecast.value.predictedExpenses < 9 * forecast.value.predictedIncome
  /\ forecast.value.riskLevel = "medium"

\* C8: when the predicted income is 0 the riskLevel is 'high' if
\* predictedBalance < 0 and 'low' otherwise, never 'medium'.
C8_ZeroIncomeRisk ==
  (ForecastReturned /\ Len(monthlyStats) >= 2 /\ forecast.value.predictedIncome = 0) =>
    forecast.value.riskLevel =
      (IF forecast.value.predictedBalance < 0 THEN "high" ELSE "low")

\* predicted income 0 with predicted expenses left over
C8_Witness ==
  /\ ForecastReturned
  /\ Len(monthlyStats) >= 2
  /\ forecast.value.predictedIncome = 0
  /\ forecast.value.predictedExpenses > 0
  /\ forecast.value.riskLevel = "high"

\* predicted income 0 and nothing to spend: the ratio is 0 / 0
C8_WitnessLow ==
  /\ ForecastReturned
  /\ Len(monthlyStats) >= 2
  /\ forecast.value.predictedIncome = 0
  /\ forecast.value.predictedExpenses = 0
  /\ forecast.value.riskLevel = "low"

\* C12: for N >= 2 months generateMonthlyForecast returns exactly `months`
\* entries; the k-th has income = round(last income + average income delta * k),
\* expenses = round(last expenses + average expenses delta * k), each taken
\* from the last month and not from the previous rounded entry, and
\* balance = income - expenses.
C12_MultiPeriodForecast ==
  (MonthlyForecastReturned /\ Len(monthlyStats) >= 2) =>
    LET n == Len(monthlyStats) - 1
        lastMonth == monthlyStats[Len(monthlyStats)]
        incomeDeltas == SumOfDeltas(Incomes(monthlyStats), Len(monthlyStats))
        expensesDeltas == SumOfDeltas(Expenses(monthlyStats), Len(monthlyStats))
        entries == monthlyForecast.value
    IN /\ Len(entries) = months
       /\ \A k \in 1..months :
            /\ IsNearest(entries[k].income, lastMonth.income * n + incomeDeltas * k, n)
            /\ IsNearest(entries[k].expenses, lastMonth.expenses * n + expensesDeltas * k, n)
            /\ entries[k].balance = entries[k].income - entries[k].expenses

\* two periods forecast from a history whose average income delta is a half,
\* so that compounding the rounded first entry would overshoot the second
C12_Witness ==
  /\ MonthlyForecastReturned
  /\ Len(monthlyStats) = 3
  /\ months = 2
  /\ SumOfDeltas(Incomes(monthlyStats), 3) = 1
  /\ monthlyForecast.value[1].income = monthlyStats[3].income + 1
  /\ monthlyForecast.value[2].income = monthlyStats[3].income + 1

\* the positions of a string in a sequence of strings
PositionsOf(seq, str) == {i \in 1..Len(seq) : seq[i] = str}

\* C19: for N >= 2 months the recommendations of generateForecast hold, in
\* this order and once each, the advisory for a negative predicted balance,
\* for an expense ratio above 0.8, for a positive average expense delta and for
\* a negative average income delta, each exactly when its condition holds; the
\* list is the single 'Continue your current financial habits' exactly when
\* none of the four holds, and it is never empty.
C19_Recommendations ==
  (ForecastReturned /\ Len(monthlyStats) >= 2) =>
    LET f == forecast.value
        recs == f.recommendations
        advisories ==
          << "Reduce non-essential expenses to avoid negative balance",
             "Consider increasing income sources or reducing expenses",
             "Your expenses are trending upward, consider budgeting",
             "Your income is trending downward, explore additional income sources" >>
        holds ==
          << f.predictedBalance < 0,
             JsRatioGT(f.predictedExpenses, f.predictedIncome, 8, 10),
             SumOfDeltas(Expenses(monthlyStats), Len(monthlyStats)) > 0,
             SumOfDeltas(Incomes(monthlyStats), Len(monthlyStats)) < 0 >>
        none == \A j \in 1..4 : ~holds[j]
        continue == "Continue your current financial habits"
    IN /\ Len(recs) >= 1
       /\ \A j \in 1..4 :
            Cardinality(PositionsOf(recs, advisories[j])) = (IF holds[j] THEN 1 ELSE 0)
       /\ \A i, j \in 1..4 :
            (i < j /\ holds[i] /\ holds[j]) =>
              \A a \in PositionsOf(recs, advisories[i]) :
                \A b \in PositionsOf(recs, advisories[j]) : a < b
       /\ (continue \in {recs[i] : i \in 1..Len(recs)}) <=> none
       /\ none => recs = <<continue>>
       /\ ~none => Len(recs) = Cardinality({j \in 1..4 : holds[j]})

\* all four conditions hold at once
C19_Witness ==
  /\ ForecastReturned
  /\ Len(monthlyStats) >= 2
  /\ Len(forecast.value.recommendations) = 4
  /\ forecast.value.predictedBalance < 0

\* none of the four conditions holds although money moved
C19_WitnessContinue ==
  /\ ForecastReturned
  /\ Len(monthlyStats) >= 2
  /\ forecast.value.predictedIncome > 0
  /\ forecast.value.recommendations = <<"Continue your current financial habits">>

\* ---------------------------------------------- claims: the risk assessment
Severity(level) == IF level = "high" THEN 2 ELSE IF level = "medium" THEN 1 ELSE 0

\* C3: within one call of assessFinancialRisk the level only moves upward
\* through the sub-checks (a), (b), (c): no step of the call lowers it.
C3_LevelMonotonic ==
  [][call = "assessFinancialRisk" => Severity(riskLevel') >= Severity(riskLevel)]_vars

\* check (a) set the level to 'high' and both later checks then took their
\* milder branch
C3_Witness ==
  /\ call = "assessFinancialRisk"
  /\ pc = "done"
  /\ factors = << "High expense to income ratio",
                  "Some categories show unusual spending patterns",
                  "Emergency fund below target" >>
  /\ riskAssessment.value.level = "high"

\* the number of patterns flagged unusual
UnusualCount(ps) == Cardinality({i \in 1..Len(ps) : ps[i].isUnusual})

\* the entry a check contributes: the first when its 'high' threshold is met,
\* the second when only its 'medium' threshold is met, none otherwise
Contribution(high, medium, whenHigh, whenMedium) ==
  IF high THEN <<whenHigh>> ELSE IF medium THEN <<whenMedium>> ELSE <<>>

\* C13: the checks run in the order (a) expense to income ratio, (b) count of
\* unusual patterns, (c) emergency fund ratio; a check that triggers at its
\* 'high' or 'medium' threshold appends exactly one factor and one mitigation,
\* a check that does not trigger appends nothing, so factors and
\* mitigationSteps have the same length, at most 3, in evaluation order.
C13_FactorsInEvaluationOrder ==
  call = "assessFinancialRisk" =>
    LET st == currentMonthStats
        count == UnusualCount(spendingPatterns)
        ratioA(p, q) == JsRatioGT(st.expenses, st.income, p, q)
        ratioC(p, q) ==
          st.savings # Absent /\ JsRatioLT(st.savings[1], 3 * st.expenses, p, q)
        factorsA == Contribution(ratioA(9, 10), ratioA(7, 10),
                                 "High expense to income ratio",
                                 "Elevated expense to income ratio")
        stepsA == Contribution(ratioA(9, 10), ratioA(7, 10),
                               "Reduce non-essential expenses",
                               "Monitor spending in major categories")
        factorsB == Contribution(count >= 3, count > 0,
                                 "Multiple categories with unusual spending patterns",
                                 "Some categories show unusual spending patterns")
        stepsB == Contribution(count >= 3, count > 0,
                               "Review and stabilize spending across categories",
                               "Monitor categories with unusual spending")
        factorsC == Contribution(ratioC(1, 2), ratioC(1, 1),
                                 "Insufficient emergency fund",
                                 "Emergency fund below target")
        stepsC == Contribution(ratioC(1, 2), ratioC(1, 1),
                               "Build emergency fund to cover 3 months of expenses",
                               "Continue building emergency fund")
    IN /\ Len(factors) = Len(mitigationSteps)
       /\ Len(factors) <= 3
       /\ pc = "expenseRatio" => factors = <<>> /\ mitigationSteps = <<>>
       /\ pc = "volatility" => factors = factorsA /\ mitigationSteps = stepsA
       /\ pc = "emergencyFund" =>
            /\ factors = factorsA \o factorsB
            /\ mitigationSteps = stepsA \o stepsB
       /\ pc \in {"return", "done"} =>
            /\ factors = factorsA \o factorsB \o factorsC
            /\ mitigationSteps = stepsA \o stepsB \o stepsC
       /\ pc = "done" =>
            /\ riskAssessment.value.factors = factors
            /\ riskAssessment.value.mitigationSteps = mitigationSteps

\* check (a) stayed silent, checks (b) and (c) both took their milder branch
C13_Witness ==
  /\ call = "assessFinancialRisk"
  /\ pc = "done"
  /\ currentMonthStats.income > 0
  /\ riskAssessment.value.factors =
       << "Some categories show unusual spending patterns",
          "Emergency fund below target" >>
  /\ riskAssessment.value.mitigationSteps =
       << "Monitor categories with unusual spending",
          "Continue building emergency fund" >>

\* C14 (as claimed): the divisions are guarded: with a monthly income of 0
\* check (a) adds no factor and leaves the level alone, and with monthly
\* expenses of 0 check (c) adds no factor and leaves the level alone.
C14_DivisionsGuarded ==
  [][call = "assessFinancialRisk" =>
       /\ (pc = "expenseRatio" /\ currentMonthStats.income = 0) =>
            UNCHANGED <<factors, mitigationSteps, riskLevel>>
       /\ (pc = "emergencyFund" /\ currentMonthStats.expenses = 0) =>
            UNCHANGED <<factors, mitigationSteps, riskLevel>>]_vars

\* --------------------------------------------- claims: the Pattern Analyzer
RECURSIVE OlderWindowTotal(_, _, _)
\* total amount of the transactions of a category dated in
\* [now - 2 months, now - 1 month)
OlderWindowTotal(txs, category, now) ==
  IF txs = <<>> THEN 0
  ELSE LET t == Head(txs)
       IN (IF /\ t.category = category
              /\ t.date >= now - 2 * TicksPerMonth
              /\ t.date < now - TicksPerMonth
             THEN t.amount ELSE 0) + OlderWindowTotal(Tail(txs), category, now)

PatternsReturned == call = "analyzeSpendingPatterns" /\ pc = "done"

\* the older window of the category is empty for every value the clock took
\* during the call
OlderWindowEmpty(category) ==
  \A now \in startedAt..clock : OlderWindowTotal(transactions, category, now) = 0

\* C4: every category whose older-window total is exactly 0 is reported with
\* percentageChange = 100 and isUnusual = true, whatever its recent total.
C4_EmptyOlderWindowSentinel ==
  PatternsReturned =>
    \A i \in 1..Len(patterns) :
      OlderWindowEmpty(patterns[i].category) =>
        patterns[i].percentageChange = 100 /\ patterns[i].isUnusual

\* one category with money only in the recent window, another with no money
\* in either window
C4_Witness ==
  /\ PatternsReturned
  /\ Len(patterns) = 2
  /\ OlderWindowEmpty(patterns[1].category)
  /\ OlderWindowEmpty(patterns[2].category)
  /\ \E i, j \in 1..2 : patterns[i].amount > 0 /\ patterns[j].amount = 0

\* the position of the first transaction carrying the label
FirstOccurrence(txs, label) ==
  CHOOSE i \in 1..Len(txs) :
    txs[i].category = label /\ \A j \in 1..(i - 1) : txs[j].category # label

\* no transaction of the category lies in a window for any value the clock
\* took during the call
OutsideBothWindows(category) ==
  \A i \in 1..Len(transactions) :
    transactions[i].category = category =>
      \A now \in startedAt..clock :
        \/ transactions[i].date < now - 2 * TicksPerMonth
        \/ transactions[i].date > now

\* C16: the call returns exactly one pattern per distinct category label of
\* the input transactions: no label twice, none missing, in order of first
\* occurrence, categories with no transaction in either window included.
C16_OnePatternPerCategory ==
  PatternsReturned =>
    LET labels == {transactions[i].category : i \in 1..Len(transactions)}
    IN /\ Len(patterns) = Cardinality(labels)
       /\ {patterns[i].category : i \in 1..Len(patterns)} = labels
       /\ \A i, j \in 1..Len(patterns) :
            i < j =>
              /\ patterns[i].category # patterns[j].category
              /\ FirstOccurrence(transactions, patterns[i].category) <
                   FirstOccurrence(transactions, patterns[j].category)

\* a label carried by two transactions, both outside the two windows, yields a
\* single pattern
C16_Witness ==
  /\ PatternsReturned
  /\ Len(transactions) = 2
  /\ transactions[1].category = transactions[2].category
  /\ Len(patterns) = 1
  /\ OutsideBothWindows(patterns[1].category)

\* two labels, the second with no transaction in either window
C16_WitnessTwoLabels ==
  /\ PatternsReturned
  /\ Len(patterns) = 2
  /\ OutsideBothWindows(patterns[2].category)

\* a forEach iteration has run: the last pattern and the locals belong to it
IterationDone == call = "analyzeSpendingPatterns" /\ patterns # <<>>

LastPattern == patterns[Len(patterns)]

\* categoryTransactions of the iteration that ran last
LastCategoryTransactions ==
  SelectSeq(transactions, LAMBDA t : t.category = LastPattern.category)

LastRecentTotal == SumAmounts(LastCategoryTransactions, recentTransactions)
LastOlderTotal == SumAmounts(LastCategoryTransactions, olderTransactions)

\* C17: with change = (recent - older) / older * 100 for older # 0 and 100 for
\* older = 0, the trend is 'stable' iff |change| < 5, 'increasing' iff
\* |change| >= 5 and change > 0, 'decreasing' otherwise, and isUnusual is true
\* iff |change| > 30.  (change < c is written change * older < c * older.)
C17_TrendClassification ==
  IterationDone =>
    LET recent == LastRecentTotal
        older == LastOlderTotal
        scaled == IF older = 0 THEN 100 ELSE (recent - older) * 100
        unit == IF older = 0 THEN 1 ELSE older
        p == LastPattern
    IN /\ (p.trend = "stable") <=> (Abs(scaled) < 5 * unit)
       /\ (p.trend = "increasing") <=> (Abs(scaled) >= 5 * unit /\ scaled > 0)
       /\ (p.trend = "decreasing") <=> (Abs(scaled) >= 5 * unit /\ scaled <= 0)
       /\ p.isUnusual <=> (Abs(scaled) > 30 * unit)

\* a change of exactly 30 %: increasing, not unusual
C17_Witness ==
  /\ IterationDone
  /\ LastOlderTotal = 20
  /\ LastRecentTotal = 26
  /\ LastPattern.trend = "increasing"
  /\ ~LastPattern.isUnusual

\* a change of exactly 5 %: increasing, not stable
C17_WitnessFivePercent ==
  /\ IterationDone
  /\ LastOlderTotal = 20
  /\ LastRecentTotal = 21
  /\ LastPattern.trend = "increasing"

\* a change of -100 %: decreasing and unusual
C17_WitnessDecreasing ==
  /\ IterationDone
  /\ LastOlderTotal > 0
  /\ LastRecentTotal = 0
  /\ LastPattern.trend = "decreasing"
  /\ LastPattern.isUnusual

\* C20 (as claimed): within one call the recent window and the older window
\* partition the transactions of a category dated at or after now - 2 months:
\* none is counted in both windows, and none dated at or after now - 2 months
\* (now being the latest reading of the clock) is counted in neither.
C20_WindowsPartition ==
  IterationDone =>
    /\ recentTransactions \cap olderTransactions = {}
    /\ \A i \in 1..Len(LastCategoryTransactions) :
         LastCategoryTransactions[i].date >= subMonths(clock, 2) =>
           i \in recentTransactions \cup olderTransactions

\* ------------------------------------------- claims: the Recommender
RecommendationsReturned ==
  call = "generateAIRecommendations" /\ recommendations.status = "returned"

\* the place of a category in the fixed order
CategoryRank(category) ==
  CASE category = "saving" -> 1
    [] category = "spending" -> 2
    [] category = "investment" -> 3
    [] category = "debt" -> 4

RECURSIVE CommaList(_)
\* the strings separated by ", ", built from the last one backwards
CommaList(strings) ==
  IF strings = <<>> THEN ""
  ELSE IF Len(strings) = 1 THEN strings[1]
  ELSE CommaList(SubSeq(strings, 1, Len(strings) - 1)) \o ", " \o strings[Len(strings)]

RECURSIVE IncreasingNames(_)
\* the categories of the patterns whose trend is 'increasing', in pattern order
IncreasingNames(ps) ==
  IF ps = <<>> THEN <<>>
  ELSE (IF Head(ps).trend = "increasing" THEN <<Head(ps).category>> ELSE <<>>)
         \o IncreasingNames(Tail(ps))

\* C15: at most four recommendations, at most one per category, in the order
\* saving, spending, investment, debt; 'saving' iff (income - expenses) /
\* income < 0.2, 'spending' iff some pattern is 'increasing' (its description
\* naming those categories comma-joined in pattern order), 'investment' iff
\* savings > 6 x expenses, 'debt' iff debt > 0.5 x income.
C15_RecommendationRules ==
  RecommendationsReturned =>
    LET recs == recommendations.value
        st == currentMonthStats
        present(c) == \E i \in 1..Len(recs) : recs[i].category = c
        names == IncreasingNames(spendingPatterns)
    IN /\ Len(recs) <= 4
       /\ \A i, j \in 1..Len(recs) :
            i < j => CategoryRank(recs[i].category) < CategoryRank(recs[j].category)
       /\ present("saving") <=> JsRatioLT(st.income - st.expenses, st.income, 1, 5)
       /\ present("spending") <=> names # <<>>
       /\ \A i \in 1..Len(recs) :
            recs[i].category = "spending" =>
              recs[i].description = "Review spending in " \o CommaList(names)
       /\ present("investment") <=>
            (st.savings # Absent /\ st.savings[1] > 6 * st.expenses)
       /\ present("debt") <=> (st.debt # Absent /\ 2 * st.debt[1] > st.income)

\* all four rules fire, two categories are increasing, rent listed before food
C15_Witness ==
  /\ RecommendationsReturned
  /\ Len(recommendations.value) = 4
  /\ recommendations.value[2].description = "Review spending in rent, food"

\* a savings rate of exactly 0.2 with a decreasing category: nothing fires
C15_WitnessNone ==
  /\ RecommendationsReturned
  /\ currentMonthStats.income = 5
  /\ currentMonthStats.expenses = 4
  /\ \E i \in 1..Len(spendingPatterns) : spendingPatterns[i].trend = "decreasing"
  /\ recommendations.value = <<>>

\* ------------------------------------------- Pattern Analyzer: window totals
RECURSIVE RawTotal(_, _, _)
\* the amounts of the transactions of ct at the positions in idx from i on,
\* added whatever their type
RawTotal(ct, idx, i) ==
  IF i > Len(ct) THEN 0
  ELSE (IF i \in idx THEN ct[i].amount ELSE 0) + RawTotal(ct, idx, i + 1)

\* C21: the window totals of a category add the raw amounts of incomes and
\* expenses alike (the older total as far as the reported change shows it),
\* and the pattern's amount is the recent-window total rounded to an integer
C21_SignAgnosticTotals ==
  IterationDone =>
    LET ct == LastCategoryTransactions
        recent == RawTotal(ct, recentTransactions, 1)
        older == RawTotal(ct, olderTransactions, 1)
        p == LastPattern
    IN /\ IsNearest(p.amount, recent, HalvesPerUnit)
       /\ IF older = 0 THEN p.percentageChange = 100
          ELSE IsNearest(p.percentageChange, (recent - older) * 100, older)

\* an income and an expense of one category both lie in the recent window and
\* their total of 20.5 units is reported as 21
C21_Witness ==
  /\ IterationDone
  /\ \E i, j \in recentTransactions :
       /\ LastCategoryTransactions[i].type = "income"
       /\ LastCategoryTransactions[j].type = "expense"
       /\ LastCategoryTransactions[i].amount + LastCategoryTransactions[j].amount = 41
  /\ LastPattern.amount = 21

\* ------------------------------- Pattern Analyzer: the reported percentage
\* C29 as claimed: trend and isUnusual of every returned pattern follow from
\* its own reported, rounded percentageChange with the thresholds 5 and 30
C29_AsClaimed ==
  call = "analyzeSpendingPatterns" =>
    \A i \in 1..Len(patterns) :
      LET p == patterns[i]
      IN /\ p.trend = "stable" <=> Abs(p.percentageChange) < 5
         /\ p.trend = "increasing" <=> p.percentageChange >= 5
         /\ p.trend = "decreasing" <=> p.percentageChange <= -5
         /\ p.isUnusual <=> Abs(p.percentageChange) > 30

\* C29, amended: the reported percentageChange fixes trend and isUnusual
\* except at the values 5, -5, 30 and -30, where the unrounded change may lie
\* on either side of the threshold
C29_ConsistentUpToRounding ==
  call = "analyzeSpendingPatterns" =>
    \A i \in 1..Len(patterns) :
      LET p == patterns[i]
          change == p.percentageChange
      IN /\ Abs(change) < 5 => p.trend = "stable"
         /\ change > 5 => p.trend = "increasing"
         /\ change < -5 => p.trend = "decreasing"
         /\ change = 5 => p.trend \in {"stable", "increasing"}
         /\ change = -5 => p.trend \in {"stable", "decreasing"}
         /\ Abs(change) > 30 => p.isUnusual
         /\ Abs(change) < 30 => ~p.isUnusual

\* a change of -4.76 % (10.5 units before, 10 now) is stable and reported as -5
C29_Witness ==
  /\ IterationDone
  /\ LastOlderTotal = 21
  /\ LastRecentTotal = 20
  /\ LastPattern.trend = "stable"
  /\ LastPattern.percentageChange = -5

\* ------------------------------------------------ Risk Assessor: the level
\* the factors the three checks add at their 'high' threshold
HighFactors ==
  { "High expense to income ratio",
    "Multiple categories with unusual spending patterns",
    "Insufficient emergency fund" }

\* C27: the returned level is 'low' iff no factor was added; otherwise it is
\* 'high' iff at least one of the three checks reached its 'high' threshold,
\* and 'medium' if none did
C27_LevelIsMostSevere ==
  (call = "assessFinancialRisk" /\ pc = "done") =>
    LET r == riskAssessment.value
        st == currentMonthStats
        reachedHigh ==
          \/ JsRatioGT(st.expenses, st.income, 9, 10)
          \/ UnusualCount(spendingPatterns) >= 3
          \/ st.savings # Absent /\ JsRatioLT(st.savings[1], 3 * st.expenses, 1, 2)
    IN /\ r.level = "low" <=> r.factors = <<>>
       /\ r.factors # <<>> => r.level = (IF reachedHigh THEN "high" ELSE "medium")
       /\ reachedHigh <=> \E i \in 1..Len(r.factors) : r.factors[i] \in HighFactors

\* only check (c) reached its 'high' threshold, after two checks at 'medium'
C27_Witness ==
  /\ call = "assessFinancialRisk"
  /\ pc = "done"
  /\ riskAssessment.value.factors =
       << "Elevated expense to income ratio",
          "Some categories show unusual spending patterns",
          "Insufficient emergency fund" >>
  /\ riskAssessment.value.level = "high"

\* every check stayed silent and the level is 'low'
C27_WitnessLow ==
  /\ call = "assessFinancialRisk"
  /\ pc = "done"
  /\ currentMonthStats.income > 0
  /\ riskAssessment.value.factors = <<>>
  /\ riskAssessment.value.level = "low"

\* ------------------------------------- Recommender: the riskAssessment argument
\* C28: the recommendations returned for the given monthlyStats and
\* spendingPatterns are those returned with any other riskAssessment, whatever
\* its level, factors and mitigation steps
C28_RiskAssessmentIgnored ==
  RecommendationsReturned =>
    \A other \in RiskAssessments :
      generateAIRecommendations(currentMonthStats, spendingPatterns, other)
        = recommendations.value

\* the investment advice is returned although the assessment passed in is 'high'
C28_Witness ==
  /\ RecommendationsReturned
  /\ riskAssessment.value.level = "high"
  /\ riskAssessment.value.factors # <<>>
  /\ \E i \in 1..Len(recommendations.value) :
       recommendations.value[i].category = "investment"

\* ----------------------------------------------- claims: the Insight Generator
InsightsReturned == call = "generateFinancialInsights" /\ insights.status = "returned"

\* the positions of the insights with the given title
TitledPositions(out, title) == {i \in 1..Len(out) : out[i].title = title}

\* C22: for a monthly income above 0 the 'Low Savings Rate' warning is emitted
\* iff (income - expenses) / income * 100 < 20; when emitted it is the first
\* insight, it is emitted once, carries exactly three action items and its
\* description shows the savings rate rounded to the nearest integer
C22_LowSavingsWarning ==
  (InsightsReturned /\ currentMonthStats.income > 0) =>
    LET out == insights.value
        income == currentMonthStats.income
        expenses == currentMonthStats.expenses
        warned == TitledPositions(out, "Low Savings Rate")
    IN /\ warned # {} <=> (income - expenses) * 100 < 20 * income
       /\ warned # {} =>
            /\ warned = {1}
            /\ out[1].type = "warning"
            /\ out[1].actionItems # Absent
            /\ Len(out[1].actionItems[1]) = 3
            /\ \E r \in (0 - 100 * MaxInsightVal - 100)..100 :
                 /\ IsNearest(r, (income - expenses) * 100, income)
                 /\ out[1].description =
                      "Your current savings rate is " \o ToString(r)
                        \o "%. Consider aiming for at least 20%."

\* a rate of -33.3 % is shown as -33 % in the first of several insights
C22_Witness ==
  /\ InsightsReturned
  /\ currentMonthStats.income = 3
  /\ currentMonthStats.expenses = 4
  /\ Len(insights.value) > 2
  /\ insights.value[1].description =
       "Your current savings rate is -33%. Consider aiming for at least 20%."

\* a rate of exactly 20 % brings no warning
C22_WitnessTwenty ==
  /\ InsightsReturned
  /\ currentMonthStats.income = 5
  /\ currentMonthStats.expenses = 4
  /\ TitledPositions(insights.value, "Low Savings Rate") = {}

\* C23 (as claimed): with a monthly income of 0 the division of the savings
\* rate is guarded: no savings-rate insight is emitted, since its rate would
\* be NaN or -Infinity, whatever the expenses are
C23_SavingsRateGuarded ==
  (InsightsReturned /\ currentMonthStats.income = 0) =>
    TitledPositions(insights.value, "Low Savings Rate") = {}

\* the insights that are neither the savings warning nor the one on large
\* transactions, in the order returned
PatternInsights(out) ==
  SelectSeq(out, LAMBDA x : x.title \notin {"Low Savings Rate", "Large Transactions Detected"})

\* C24: one 'info' insight per pattern with isUnusual = true, in pattern order,
\* and none for the other patterns; it has exactly three action items when the
\* pattern's trend is 'increasing' and no action items otherwise
C24_OneInsightPerUnusualPattern ==
  InsightsReturned =>
    LET unusual == SelectSeq(spendingPatterns, LAMBDA p : p.isUnusual)
        found == PatternInsights(insights.value)
    IN /\ Len(found) = Len(unusual)
       /\ \A k \in 1..Len(found) :
            /\ found[k].type = "info"
            /\ found[k].title = "Unusual " \o unusual[k].category \o " Spending"
            /\ IF unusual[k].trend = "increasing"
                 THEN found[k].actionItems # Absent /\ Len(found[k].actionItems[1]) = 3
                 ELSE found[k].actionItems = Absent

\* a decreasing and an increasing unusual pattern, in this order
C24_Witness ==
  /\ InsightsReturned
  /\ Len(spendingPatterns) = 2
  /\ spendingPatterns[1].isUnusual /\ spendingPatterns[1].trend = "decreasing"
  /\ spendingPatterns[2].isUnusual /\ spendingPatterns[2].trend = "increasing"
  /\ Len(PatternInsights(insights.value)) = 2
  /\ PatternInsights(insights.value)[1].actionItems = Absent
  /\ PatternInsights(insights.value)[2].title = "Unusual food Spending"

\* a pattern that is increasing but not unusual brings no insight
C24_WitnessNotUnusual ==
  /\ InsightsReturned
  /\ \E i \in 1..Len(spendingPatterns) :
       ~spendingPatterns[i].isUnusual /\ spendingPatterns[i].trend = "increasing"
  /\ \E i \in 1..Len(spendingPatterns) : spendingPatterns[i].isUnusual
  /\ Len(PatternInsights(insights.value)) = 1

\* the positions of the transactions above 20 % of the month's income
LargePositions ==
  {i \in 1..Len(transactions) : 5 * transactions[i].amount > currentMonthStats.income}

\* the k-th smallest member of a set of positions
KthPosition(positions, k) ==
  CHOOSE i \in positions : Cardinality({j \in positions : j < i}) = k - 1

\* C25: the 'Large Transactions Detected' insight is emitted iff some input
\* transaction has an amount above 20 % of the month's income; it is emitted
\* at most once, as the last insight, and its action items are those of the
\* first min(3, count) such transactions, in input order
C25_LargeTransactions ==
  InsightsReturned =>
    LET out == insights.value
        emitted == TitledPositions(out, "Large Transactions Detected")
        count == Cardinality(LargePositions)
    IN /\ emitted # {} <=> count > 0
       /\ emitted # {} =>
            /\ emitted = {Len(out)}
            /\ out[Len(out)].actionItems # Absent
            /\ LET items == out[Len(out)].actionItems[1]
               IN /\ Len(items) = IF count < 3 THEN count ELSE 3
                  /\ \A k \in 1..Len(items) :
                       LET t == transactions[KthPosition(LargePositions, k)]
                       IN items[k] = "Review " \o t.category \o " expense of $"
                                       \o ToString(t.amount) \o " on "
                                       \o formatMonthDay(t.date)

\* four transactions above the threshold, the larger ones not first: the three
\* first are listed, after the warning and a pattern insight
C25_Witness ==
  /\ InsightsReturned
  /\ Len(transactions) = 4
  /\ Cardinality(LargePositions) = 4
  /\ transactions[1].amount = 1 /\ transactions[2].amount = 2
  /\ transactions[3].amount = 1 /\ transactions[4].amount = 2
  /\ Len(insights.value) = 3
  /\ insights.value[3].actionItems =
       Present(<< "Review food expense of $1 on Nov 1",
                  "Review undefined expense of $2 on Dec 2",
                  "Review food expense of $1 on Nov 1" >>)

\* ------------------------------------------------- claims: the DataProvider
RECURSIVE SumOfType(_, _)
\* the sum of the amounts of the transactions of one type
SumOfType(list, type) ==
  IF list = <<>> THEN 0
  ELSE (IF Head(list).type = type THEN Head(list).amount ELSE 0)
         + SumOfType(Tail(list), type)

\* C30 (as claimed): once every call of fetchData, updateTransaction and
\* deleteTransaction has completed, the balance state is the fold of the
\* transactions state: income and expenses are the sums of the amounts of
\* their type and total is their difference
C30_BalanceIsFoldOfTransactions ==
  (call = "DataProvider" /\ calls = <<>>) =>
    /\ balance.income = SumOfType(transactions, "income")
    /\ balance.expenses = SumOfType(transactions, "expense")
    /\ balance.total = balance.income - balance.expenses

\* ------------------------------------ Trend Estimator: intermediate months
\* the history with every intermediate month replaced by the first month
WithoutIntermediates(stats) ==
  [i \in 1..Len(stats) |-> IF i = Len(stats) THEN stats[i] ELSE stats[1]]

\* a month whose income and expenses are whole numbers of units
WholeUnits(entry) ==
  /\ entry.income.lo = 0 /\ entry.income.hi % (2 ^ UnitBits) = 0
  /\ entry.expenses.lo = 0 /\ entry.expenses.hi % (2 ^ UnitBits) = 0

\* the predictions are those of the history without its intermediate months
SamePredictionsWithoutIntermediates ==
  LET other == WithoutIntermediates(monthlyStats)
  IN /\ forecast.status = "returned" =>
          LET f == forecast.value
              g == generateForecastDouble(other)
          IN /\ f.predictedIncome = g.predictedIncome
             /\ f.predictedExpenses = g.predictedExpenses
             /\ f.predictedBalance = g.predictedBalance
     /\ monthlyForecast.status = "returned" =>
          monthlyForecast.value = generateMonthlyForecastDouble(other, months, clock)

\* C26 (as claimed): for a history of N >= 2 months the predictions of
\* generateForecast and generateMonthlyForecast are those of any history of
\* the same length with the same first and last month, whatever the
\* intermediate months are
C26_PredictionsIgnoreIntermediates ==
  (call = "forecastDouble" /\ Len(monthlyStats) >= 2) =>
    SamePredictionsWithoutIntermediates

\* C26, amended: when the incomes and the expenses of all months are whole
\* numbers of units, the predictions depend on the length and on the first
\* and the last month only
C26_WholeUnitsIgnoreIntermediates ==
  ( /\ call = "forecastDouble"
    /\ Len(monthlyStats) >= 2
    /\ \A i \in 1..Len(monthlyStats) : WholeUnits(monthlyStats[i]) ) =>
    SamePredictionsWithoutIntermediates

\* incomes of 1, 2 and 2 units: the intermediate month differs from the first
\* one and the prediction is 2 + (2 - 1) / 2 = 2.5, rounded to 3
C26_Witness ==
  /\ call = "forecastDouble"
  /\ pc = "done"
  /\ Len(monthlyStats) = 3
  /\ \A i \in 1..3 : WholeUnits(monthlyStats[i])
  /\ monthlyStats[1].income = DoubleOne
  /\ monthlyStats[2].income = DoubleTwo
  /\ monthlyStats[3].income = DoubleTwo
  /\ monthlyStats[2] # monthlyStats[1]
  /\ forecast.value.predictedIncome = 3
  /\ months > 0

====
